---- MODULE Spec2Model ----
(***************************************************************************)
(* A model of wtg (crates/wtg): the repository cache and its FetchState,   *)
(* the resolver over a Backend, closing-PR discovery on the issue          *)
(* timeline, release selection (local ancestry and API compare), and the   *)
(* input parser.  Each component has its own specification over the        *)
(* shared variables; the variables of the other components stay at their   *)
(* idle values.                                                            *)
(***************************************************************************)
EXTENDS Naturals, Integers, Sequences, FiniteSets, TLC

VARIABLES
    \* ---- repository cache (git.rs GitRepo, repo_manager.rs RepoManager)
    entry,          \* the immutable fields of the opened repository object
    fetch_state,    \* FetchState behind its mutex
    local_commits,  \* commit objects present in the local object database
    repo_shallow,   \* what git2 Repository::is_shallow answers now
    remote_refs,    \* what the remote answers to ls-remote / fetch
    callers,        \* per caller: position inside find_commit / ensure_tags
    absent_probed,  \* history: hashes some lookup's ls-remote reported absent
    calls,          \* history: number of operations started
    \* ---- resolver over a Backend (resolution.rs, backend/*.rs, github.rs)
    query,          \* the parsed Query being resolved
    backend,        \* the Backend the resolver was given
    rpc,            \* the probe the resolver runs next, or "done"
    probe_log,      \* history: the resolve_* probes run, in order
    calls_log,      \* history: the Backend methods called, in order
    notices,        \* history: the notices emitted by the GitHub client
    outcome,        \* what resolve returned
    \* ---- closing-PR discovery on an issue timeline (github.rs)
    tpc,            \* position inside find_closing_prs
    tclient,        \* the GitHubClient walking the timeline
    closing_prs,    \* the Vec<PullRequestInfo> being built
    saml_fallback,  \* first page came from the backup client after SAML
    page_no,        \* number of timeline pages received
    events_left,    \* events of the current page not yet visited
    closed_pr,      \* history: PR of the first merged Closed event, 0 if none
    after_closed,   \* history: events visited and pages fetched after it
    \* ---- release selection (git.rs, git_backend.rs, github_backend.rs)
    tag_world,      \* per tag: time, whether it contains the target, semver, release
    target_ts,      \* the target commit's time (the `since` date on the API path)
    page_size,      \* releases per API page
    spc,            \* position inside find_release_for_commit
    path,           \* which selection runs: "repo", "given" or "api"
    candidates,     \* the candidate tags / fetched releases, in order
    pages_fetched,  \* release pages requested so far
    cmp_idx,        \* index of the release compared next
    best,           \* the tag returned, 0 for None
    \* ---- input parser (parse_input.rs)
    raw_input,      \* the input argument, a sequence of characters
    repo_flag,      \* the repo flag: given or not, and its text
    build,          \* "debug" (debug assertions on) or "release"
    ppc,            \* "start" before try_parse_input, "done" after
    parsed,         \* what try_parse_input returned
    find_file_arg,  \* the paths handed to Backend::find_file (at most one)
    \* ---- functions of their arguments (enrich_commit, find_file,
    \*      parse_semver)
    fn_arg,         \* the arguments of the function under study
    fn_res          \* the values it returned, in call order

cacheVars == <<entry, fetch_state, local_commits, repo_shallow, remote_refs,
               callers, absent_probed, calls>>

resolverVars == <<query, backend, rpc, probe_log, calls_log, notices, outcome>>

timelineVars == <<tpc, tclient, closing_prs, saml_fallback, page_no, events_left,
                  closed_pr, after_closed>>

selectVars == <<tag_world, target_ts, page_size, spc, path, candidates,
                pages_fetched, cmp_idx, best>>

parserVars == <<raw_input, repo_flag, build, ppc, parsed, find_file_arg>>

funcVars == <<fn_arg, fn_res>>

vars == <<cacheVars, resolverVars, timelineVars, selectVars, parserVars, funcVars>>

\* What the actions of one component leave alone.
nonCacheVars == <<resolverVars, timelineVars, selectVars, parserVars, funcVars>>
nonResolverVars == <<cacheVars, timelineVars, selectVars, parserVars, funcVars>>
nonTimelineVars == <<cacheVars, resolverVars, selectVars, parserVars, funcVars>>
nonSelectVars == <<cacheVars, resolverVars, timelineVars, parserVars, funcVars>>
nonParserVars == <<cacheVars, resolverVars, timelineVars, selectVars, funcVars>>
nonFuncVars == <<cacheVars, resolverVars, timelineVars, selectVars, parserVars>>

(***************************************************************************)
(* Bounds                                                                  *)
(***************************************************************************)
NumHashes == 2
MaxCalls == 3
NumPrs == 2
MaxPages == 2
MaxEvents == 2
NumTags == 2
MaxTs == 1
MaxLen == 3
MaxArg == 2
MaxCommits == 3
MaxTagLen == 5
AuthorsLimit == 4

Hashes == 1..NumHashes
Callers == {"c1", "c2"}

(***************************************************************************)
(* Repository cache                                                        *)
(***************************************************************************)

\* FetchState::default()
FetchStateDefault ==
    [full_metadata_synced |-> FALSE, fetched_commits |-> {}, tags_synced |-> FALSE]

\* GitRepo::open / RepoManager::local followed by set_allow_fetch(fetch_flag):
\* the user's working directory.
LocalEntry(kind, fetch_flag, has_remote, shallow) ==
    [kind |-> kind, is_local |-> TRUE, allow_fetch |-> fetch_flag,
     has_remote_url |-> has_remote, is_shallow |-> shallow, opened |-> "local"]

\* GitRepo::remote / RepoManager::remote: a cached clone.  `how` is the path
\* taken through the open: "refreshed" (existing entry, refresh succeeded),
\* "stale" (existing entry, refresh failed), "cloned" (fresh clone).
RemoteEntry(kind, how, shallow) ==
    [kind |-> kind, is_local |-> FALSE, allow_fetch |-> TRUE,
     has_remote_url |-> TRUE, is_shallow |-> shallow, opened |-> how]

\* An open that marks every entry it returns as synced.
SyncedAfterOpenAlways(how) == how \in {"refreshed", "stale", "cloned"}

\* full_metadata_synced as computed by GitRepo::remote / RepoManager::remote
SyncedAfterOpen(how) == how \in {"refreshed", "cloned"}

IdleCaller ==
    [pc |-> "idle", op |-> "none", hash |-> 0, probes |-> 0, fetches |-> 0,
     tag_fetches |-> 0, result |-> "none",
     pre_local |-> FALSE, pre_synced |-> FALSE, pre_attempted |-> FALSE,
     pre_allowed |-> FALSE, after_absent |-> FALSE]

Entries ==
    { LocalEntry(k, f, r, s) :
        k \in {"GitRepo", "RepoManager"}, f \in BOOLEAN, r \in BOOLEAN, s \in BOOLEAN }
    \cup
    { RemoteEntry(k, h, s) :
        k \in {"GitRepo", "RepoManager"}, h \in {"refreshed", "stale"}, s \in BOOLEAN }
    \cup
    { RemoteEntry(k, "cloned", FALSE) : k \in {"GitRepo", "RepoManager"} }

\* No query is being resolved.
ResolverIdle ==
    /\ query = [kind |-> "none", numeric |-> FALSE]
    /\ backend = [kind |-> "none"]
    /\ rpc = "done"
    /\ probe_log = <<>>
    /\ calls_log = <<>>
    /\ notices = <<>>
    /\ outcome = [status |-> "none", err |-> "none", entry |-> "none",
                  commit |-> FALSE, release |-> "none"]

\* No timeline is being walked.
TimelineIdle ==
    /\ tpc = "done"
    /\ tclient = [is_authenticated |-> FALSE, backup_built |-> FALSE]
    /\ closing_prs = <<>>
    /\ saml_fallback = FALSE
    /\ page_no = 0
    /\ events_left = 0
    /\ closed_pr = 0
    /\ after_closed = 0

TagIds == 1..NumTags
Timestamps == 0..MaxTs

\* No release is being selected.
SelectIdle ==
    /\ tag_world = [t \in TagIds |->
                      [ts |-> 0, contains |-> FALSE, semver |-> FALSE, released |-> FALSE]]
    /\ target_ts = 0
    /\ page_size = 1
    /\ spc = "done"
    /\ path = "none"
    /\ candidates = <<>>
    /\ pages_fetched = 0
    /\ cmp_idx = 0
    /\ best = 0

\* A parser result: an error, or a Query with its text.
PErr(e) == [ok |-> FALSE, panic |-> FALSE, err |-> e, kind |-> "none",
            value |-> <<>>, remote |-> FALSE]
POk(kind, value, remote) ==
    [ok |-> TRUE, panic |-> FALSE, err |-> "none", kind |-> kind,
     value |-> value, remote |-> remote]

\* No function is under study.
FuncIdle == fn_arg = <<>> /\ fn_res = <<>>

\* Nothing is being parsed.
ParserIdle ==
    /\ raw_input = <<>>
    /\ repo_flag = [given |-> FALSE, url |-> <<>>]
    /\ build = "release"
    /\ ppc = "resolved"
    /\ parsed = PErr("none")
    /\ find_file_arg = <<>>

InitCache ==
    /\ ResolverIdle
    /\ TimelineIdle
    /\ SelectIdle
    /\ ParserIdle
    /\ FuncIdle
    /\ entry \in Entries
    /\ fetch_state = [FetchStateDefault EXCEPT
                        !.full_metadata_synced = SyncedAfterOpen(entry.opened)]
    /\ local_commits \in SUBSET Hashes
    /\ repo_shallow = entry.is_shallow
    /\ remote_refs \in SUBSET Hashes
    /\ callers = [c \in Callers |-> IdleCaller]
    /\ absent_probed = {}
    /\ calls = 0

\* GitRepo::find_commit_local / RepoManager::find_commit
find_commit_local(h) == h \in local_commits

\* Steps 3-5 of the lookup: may this repository object contact the remote?
\* GitRepo::find_commit: !allow_fetch, then is_shallow() read from the
\* repository, then remote_url.  RepoManager::find_commit_or_fetch:
\* is_local && !allow_fetch, then the is_shallow field && !allow_fetch, then
\* remote_url.
FetchGatesPass ==
    IF entry.kind = "GitRepo"
    THEN entry.allow_fetch /\ ~repo_shallow /\ entry.has_remote_url
    ELSE /\ ~(entry.is_local /\ ~entry.allow_fetch)
         /\ ~(entry.is_shallow /\ ~entry.allow_fetch)
         /\ entry.has_remote_url

\* ensure_tags' gates after the flag check.
TagGatesPass ==
    IF entry.kind = "GitRepo"
    THEN entry.allow_fetch /\ entry.has_remote_url
    ELSE ~(entry.is_local /\ ~entry.allow_fetch) /\ entry.has_remote_url

\* The functions are synchronous: on the current-thread runtime a call runs
\* to its end before the next starts (sequential); with several threads the
\* steps between two lock acquisitions interleave (concurrent).
MayStart(concurrent, c) ==
    /\ callers[c].pc = "idle"
    /\ calls < MaxCalls
    /\ concurrent \/ \A d \in Callers : callers[d].pc = "idle"

\* find_commit, step 1: local lookup.
FindCommitStart(concurrent, c, h) ==
    /\ MayStart(concurrent, c)
    /\ calls' = calls + 1
    /\ callers' = [callers EXCEPT ![c] =
          [IdleCaller EXCEPT
             !.pc = IF find_commit_local(h) THEN "done" ELSE "state",
             !.op = "find_commit",
             !.hash = h,
             !.result = IF find_commit_local(h) THEN "Found" ELSE "none",
             !.pre_local = find_commit_local(h),
             !.pre_synced = fetch_state.full_metadata_synced,
             !.pre_attempted = h \in fetch_state.fetched_commits,
             !.pre_allowed = entry.allow_fetch /\ entry.has_remote_url /\ ~repo_shallow,
             !.after_absent = h \in absent_probed]]
    /\ UNCHANGED <<entry, fetch_state, local_commits, repo_shallow, remote_refs,
                   absent_probed,
                   nonCacheVars>>

\* find_commit, steps 2-5: the flag check under the lock, then the gates.
CheckState(c) ==
    /\ callers[c].pc = "state"
    /\ LET h == callers[c].hash
           known == fetch_state.full_metadata_synced
                    \/ h \in fetch_state.fetched_commits
       IN callers' = [callers EXCEPT ![c] =
            IF known \/ ~FetchGatesPass
            THEN [@ EXCEPT !.pc = "done", !.result = "NotFound"]
            ELSE [@ EXCEPT !.pc = "probe"]]
    /\ UNCHANGED <<entry, fetch_state, local_commits, repo_shallow, remote_refs,
                   absent_probed, calls,
                   nonCacheVars>>

\* find_commit, step 6: the ls-remote subprocess is spawned.
ProbeBegin(c) ==
    /\ callers[c].pc = "probe"
    /\ callers' = [callers EXCEPT ![c] =
                     [@ EXCEPT !.pc = "probing", !.probes = @ + 1]]
    /\ UNCHANGED <<entry, fetch_state, local_commits, repo_shallow, remote_refs,
                   absent_probed, calls,
                   nonCacheVars>>

\* ProbeEnd with the insert replaced by an assignment.
ProbeEndOverwrites(c, ran) ==
    /\ callers[c].pc = "probing"
    /\ LET h == callers[c].hash IN
         IF ~ran
         THEN /\ callers' = [callers EXCEPT ![c] =
                               [@ EXCEPT !.pc = "done", !.result = "Error"]]
              /\ UNCHANGED <<fetch_state, absent_probed>>
         ELSE IF h \notin remote_refs
         THEN /\ fetch_state' = [fetch_state EXCEPT !.fetched_commits = {h}]
              /\ absent_probed' = absent_probed \cup {h}
              /\ callers' = [callers EXCEPT ![c] =
                               [@ EXCEPT !.pc = "done", !.result = "NotFound"]]
         ELSE /\ callers' = [callers EXCEPT ![c] = [@ EXCEPT !.pc = "fetch"]]
              /\ UNCHANGED <<fetch_state, absent_probed>>
    /\ UNCHANGED <<entry, local_commits, repo_shallow, remote_refs, calls,
                   nonCacheVars>>

\* ProbeEnd that forgets to record the attempted hash.
ProbeEndForgets(c, ran) ==
    /\ callers[c].pc = "probing"
    /\ LET h == callers[c].hash IN
         IF ~ran
         THEN callers' = [callers EXCEPT ![c] =
                            [@ EXCEPT !.pc = "done", !.result = "Error"]]
         ELSE IF h \notin remote_refs
         THEN callers' = [callers EXCEPT ![c] =
                            [@ EXCEPT !.pc = "done", !.result = "NotFound"]]
         ELSE callers' = [callers EXCEPT ![c] = [@ EXCEPT !.pc = "fetch"]]
    /\ absent_probed' = IF ran /\ callers[c].hash \notin remote_refs
                        THEN absent_probed \cup {callers[c].hash}
                        ELSE absent_probed
    /\ UNCHANGED <<entry, fetch_state, local_commits, repo_shallow, remote_refs, calls,
                   nonCacheVars>>

\* find_commit, step 6 ends: ls_remote_ref_exists returns.  ~ran: the
\* subprocess could not be run (Err, propagated by `?`); otherwise the exit
\* status tells whether the remote has the ref.
ProbeEnd(c, ran) ==
    /\ callers[c].pc = "probing"
    /\ LET h == callers[c].hash IN
         IF ~ran
         THEN /\ callers' = [callers EXCEPT ![c] =
                               [@ EXCEPT !.pc = "done", !.result = "Error"]]
              /\ UNCHANGED <<fetch_state, absent_probed>>
         ELSE IF h \notin remote_refs
         THEN /\ fetch_state' = [fetch_state EXCEPT
                                   !.fetched_commits = @ \cup {h}]
              /\ absent_probed' = absent_probed \cup {h}
              /\ callers' = [callers EXCEPT ![c] =
                               [@ EXCEPT !.pc = "done", !.result = "NotFound"]]
         ELSE /\ callers' = [callers EXCEPT ![c] = [@ EXCEPT !.pc = "fetch"]]
              /\ UNCHANGED <<fetch_state, absent_probed>>
    /\ UNCHANGED <<entry, local_commits, repo_shallow, remote_refs, calls,
                   nonCacheVars>>

\* find_commit, step 7: the `git fetch --depth=1` subprocess is spawned.
FetchBegin(c) ==
    /\ callers[c].pc = "fetch"
    /\ callers' = [callers EXCEPT ![c] =
                     [@ EXCEPT !.pc = "fetching", !.fetches = @ + 1]]
    /\ UNCHANGED <<entry, fetch_state, local_commits, repo_shallow, remote_refs,
                   absent_probed, calls,
                   nonCacheVars>>

\* FetchEnd that records the hash before it looks at the fetch's result.
FetchEndRecordsFailure(c, ok) ==
    /\ callers[c].pc = "fetching"
    /\ LET h == callers[c].hash IN
         /\ fetch_state' = [fetch_state EXCEPT !.fetched_commits = @ \cup {h}]
         /\ IF ok
            THEN /\ local_commits' = local_commits \cup {h}
                 /\ repo_shallow' = TRUE
                 /\ callers' = [callers EXCEPT ![c] =
                                  [@ EXCEPT !.pc = "done", !.result = "Found"]]
            ELSE /\ callers' = [callers EXCEPT ![c] =
                                  [@ EXCEPT !.pc = "done", !.result = "Error"]]
                 /\ UNCHANGED <<local_commits, repo_shallow>>
    /\ UNCHANGED <<entry, remote_refs, absent_probed, calls,
                   nonCacheVars>>

\* find_commit, steps 7-9: fetch_commit returns; on success the hash is
\* recorded and the local lookup retried; on failure the error is returned
\* by `?` before the record.  A depth=1 fetch leaves the repository shallow.
FetchEnd(c, ok) ==
    /\ callers[c].pc = "fetching"
    /\ LET h == callers[c].hash IN
         IF ok
         THEN /\ local_commits' = local_commits \cup {h}
              /\ repo_shallow' = TRUE
              /\ fetch_state' = [fetch_state EXCEPT
                                   !.fetched_commits = @ \cup {h}]
              /\ callers' = [callers EXCEPT ![c] =
                               [@ EXCEPT !.pc = "done", !.result = "Found"]]
         ELSE /\ callers' = [callers EXCEPT ![c] =
                               [@ EXCEPT !.pc = "done", !.result = "Error"]]
              /\ UNCHANGED <<local_commits, repo_shallow, fetch_state>>
    /\ UNCHANGED <<entry, remote_refs, absent_probed, calls,
                   nonCacheVars>>

\* tags_containing_commit -> ensure_tags: the flag check under the lock and
\* the gates.
TagsStart(concurrent, c) ==
    /\ MayStart(concurrent, c)
    /\ calls' = calls + 1
    /\ callers' = [callers EXCEPT ![c] =
          [IdleCaller EXCEPT
             !.op = "tags",
             !.pc = IF fetch_state.tags_synced \/ fetch_state.full_metadata_synced
                       \/ ~TagGatesPass
                    THEN "done" ELSE "tags_fetch",
             !.result = "Ok"]]
    /\ UNCHANGED <<entry, fetch_state, local_commits, repo_shallow, remote_refs,
                   absent_probed,
                   nonCacheVars>>

\* ensure_tags: the `git fetch --tags --force` subprocess is spawned.
TagsFetchBegin(c) ==
    /\ callers[c].pc = "tags_fetch"
    /\ callers' = [callers EXCEPT ![c] =
                     [@ EXCEPT !.pc = "tags_fetching", !.tag_fetches = @ + 1]]
    /\ UNCHANGED <<entry, fetch_state, local_commits, repo_shallow, remote_refs,
                   absent_probed, calls,
                   nonCacheVars>>

\* ensure_tags without the final write: tags_synced is left as it was.
TagsFetchEndForgets(c, ok) ==
    /\ callers[c].pc = "tags_fetching"
    /\ fetch_state' = fetch_state
    /\ callers' = [callers EXCEPT ![c] =
                     [@ EXCEPT !.pc = "done",
                               !.result = IF ok THEN "Ok" ELSE "Error"]]
    /\ UNCHANGED <<entry, local_commits, repo_shallow, remote_refs,
                   absent_probed, calls,
                   nonCacheVars>>

\* ensure_tags: fetch_tags returns; on success tags_synced is set, on failure
\* the error leaves by `?` (tags_containing_commit drops it with `let _ =`).
TagsFetchEnd(c, ok) ==
    /\ callers[c].pc = "tags_fetching"
    /\ fetch_state' = IF ok THEN [fetch_state EXCEPT !.tags_synced = TRUE]
                      ELSE fetch_state
    /\ callers' = [callers EXCEPT ![c] =
                     [@ EXCEPT !.pc = "done",
                               !.result = IF ok THEN "Ok" ELSE "Error"]]
    /\ UNCHANGED <<entry, local_commits, repo_shallow, remote_refs,
                   absent_probed, calls,
                   nonCacheVars>>

\* The call returns to its caller.
Return(c) ==
    /\ callers[c].pc = "done"
    /\ callers' = [callers EXCEPT ![c] = IdleCaller]
    /\ UNCHANGED <<entry, fetch_state, local_commits, repo_shallow, remote_refs,
                   absent_probed, calls,
                   nonCacheVars>>

CacheSteps ==
    \E c \in Callers :
        \/ CheckState(c)
        \/ ProbeBegin(c)
        \/ \E ran \in BOOLEAN : ProbeEnd(c, ran)
        \/ FetchBegin(c)
        \/ \E ok \in BOOLEAN : FetchEnd(c, ok)
        \/ TagsFetchBegin(c)
        \/ \E ok \in BOOLEAN : TagsFetchEnd(c, ok)
        \/ Return(c)

NextCache ==
    \/ \E c \in Callers, h \in Hashes : FindCommitStart(FALSE, c, h)
    \/ \E c \in Callers : TagsStart(FALSE, c)
    \/ CacheSteps

NextCacheConc ==
    \/ \E c \in Callers, h \in Hashes : FindCommitStart(TRUE, c, h)
    \/ \E c \in Callers : TagsStart(TRUE, c)
    \/ CacheSteps

\* One repository entry used by one call at a time.
SpecCache == InitCache /\ [][NextCache]_vars

\* One repository entry shared by callers on several threads.
SpecCacheConc == InitCache /\ [][NextCacheConc]_vars

Spec == SpecCache

(***************************************************************************)
(* Claims about the repository cache                                       *)
(***************************************************************************)

\* C1: across any sequence of cache operations (commit lookups with
\* on-demand fetch, tag lookups with ensure_tags, failing calls included)
\* full_metadata_synced and tags_synced never go from true to false and no
\* hash is ever removed from fetched_commits.
C1_FetchStateMonotonic ==
    [][ /\ fetch_state.full_metadata_synced => fetch_state'.full_metadata_synced
        /\ fetch_state.tags_synced => fetch_state'.tags_synced
        /\ fetch_state.fetched_commits \subseteq fetch_state'.fetched_commits ]_vars

\* A call has just failed on an entry whose tags are synced and which has
\* recorded an attempted hash.
C1_Witness ==
    /\ fetch_state.tags_synced
    /\ fetch_state.fetched_commits # {}
    /\ \E c \in Callers : callers[c].pc = "done" /\ callers[c].result = "Error"

ApiOutcomes == {"ok", "not_found", "rate_limit", "saml", "bad_credentials", "timeout"}

\* await_with_timeout_and_error and From<OctoError> for WtgError: 429 (and a
\* 403 naming the rate limit) is GhRateLimit, a 403 naming SAML is GhSaml,
\* an elapsed timeout is Timeout, any other status is GitHub.
WtgErrorOf(o) ==
    CASE o = "rate_limit" -> "GhRateLimit"
      [] o = "saml" -> "GhSaml"
      [] o = "bad_credentials" -> "GhBadCredentials"
      [] o = "timeout" -> "Timeout"
      [] OTHER -> "GitHub"

\* GitHubClient::new: an authenticated main client with a lazily built
\* anonymous backup (which may fail to build), or an anonymous main client
\* with no backup.
Clients ==
    { [is_authenticated |-> TRUE, backup_built |-> b] : b \in BOOLEAN }
    \cup { [is_authenticated |-> FALSE, backup_built |-> FALSE] }

GhRateLimitHit(authenticated) ==
    [kind |-> "GhRateLimitHit", authenticated |-> authenticated]

ApiErr(e, ns) == [ok |-> FALSE, err |-> e, selection |-> "none", notices |-> ns]
ApiOk(sel) == [ok |-> TRUE, err |-> "none", selection |-> sel, notices |-> <<>>]

\* call_api_and_get_client that falls back to the backup after any error of
\* an authenticated main client other than a rate limit.
call_api_and_get_client_any_error(client, main, backup) ==
    LET Via(r, backup_called) ==
            [ok |-> r.ok, err |-> r.err, selection |-> r.selection,
             notices |-> r.notices, backup_called |-> backup_called]
    IN  IF main = "ok" THEN Via(ApiOk("Main"), FALSE)
        ELSE IF main = "rate_limit"
        THEN Via(ApiErr("GhRateLimit", <<GhRateLimitHit(client.is_authenticated)>>), FALSE)
        ELSE IF client.is_authenticated
        THEN IF ~client.backup_built THEN Via(ApiErr("GhConnectionLost", <<>>), FALSE)
             ELSE IF backup = "ok"
             THEN Via(ApiOk(IF main = "saml" THEN "FallbackSaml"
                            ELSE "FallbackBadCredentials"), TRUE)
             ELSE IF backup = "rate_limit"
             THEN Via(ApiErr("GhRateLimit", <<GhRateLimitHit(FALSE)>>), TRUE)
             ELSE IF backup = "saml" THEN Via(ApiErr(WtgErrorOf(main), <<>>), TRUE)
             ELSE Via(ApiErr(WtgErrorOf(backup), <<>>), TRUE)
        ELSE Via(ApiErr(WtgErrorOf(main), <<>>), FALSE)

\* call_api_and_get_client that returns the backup's own SAML error.
call_api_and_get_client_backup_error(client, main, backup) ==
    LET Via(r, backup_called) ==
            [ok |-> r.ok, err |-> r.err, selection |-> r.selection,
             notices |-> r.notices, backup_called |-> backup_called]
    IN  IF main = "ok" THEN Via(ApiOk("Main"), FALSE)
        ELSE IF main = "rate_limit"
        THEN Via(ApiErr("GhRateLimit", <<GhRateLimitHit(client.is_authenticated)>>), FALSE)
        ELSE IF main \in {"saml", "bad_credentials"} /\ client.is_authenticated
        THEN IF ~client.backup_built THEN Via(ApiErr("GhConnectionLost", <<>>), FALSE)
             ELSE IF backup = "ok"
             THEN Via(ApiOk(IF main = "saml" THEN "FallbackSaml"
                            ELSE "FallbackBadCredentials"), TRUE)
             ELSE IF backup = "rate_limit"
             THEN Via(ApiErr("GhRateLimit", <<GhRateLimitHit(FALSE)>>), TRUE)
             ELSE IF backup = "saml" THEN Via(ApiErr(WtgErrorOf(backup), <<>>), TRUE)
             ELSE Via(ApiErr(WtgErrorOf(backup), <<>>), TRUE)
        ELSE Via(ApiErr(WtgErrorOf(main), <<>>), FALSE)

\* call_api_and_get_client: `main` and `backup` are what the call ends with
\* on the main and on the backup client; backup_called tells whether the
\* call was made on the backup client.
call_api_and_get_client(client, main, backup) ==
    LET Via(r, backup_called) ==
            [ok |-> r.ok, err |-> r.err, selection |-> r.selection,
             notices |-> r.notices, backup_called |-> backup_called]
    IN  IF main = "ok" THEN Via(ApiOk("Main"), FALSE)
        ELSE IF main = "rate_limit"
        THEN Via(ApiErr("GhRateLimit", <<GhRateLimitHit(client.is_authenticated)>>), FALSE)
        ELSE IF main \in {"saml", "bad_credentials"} /\ client.is_authenticated
        THEN IF ~client.backup_built THEN Via(ApiErr("GhConnectionLost", <<>>), FALSE)
             ELSE IF backup = "ok"
             THEN Via(ApiOk(IF main = "saml" THEN "FallbackSaml"
                            ELSE "FallbackBadCredentials"), TRUE)
             ELSE IF backup = "rate_limit"
             THEN Via(ApiErr("GhRateLimit", <<GhRateLimitHit(FALSE)>>), TRUE)
             ELSE IF backup = "saml" THEN Via(ApiErr(WtgErrorOf(main), <<>>), TRUE)
             ELSE Via(ApiErr(WtgErrorOf(backup), <<>>), TRUE)
        ELSE Via(ApiErr(WtgErrorOf(main), <<>>), FALSE)

\* call_client_api_with_fallback followed by `.log_err(..)?` in a function
\* returning Option: an Err is logged and becomes None.  `cause` keeps the
\* error that was logged.
LoggedOption(r) == [some |-> r.ok, cause |-> r.err, notices |-> r.notices]

\* GitHubClient::fetch_commit_full_info
fetch_commit_full_info(client, raw) ==
    LoggedOption(call_api_and_get_client(client, raw.main, raw.backup))

\* GitHubClient::fetch_pr
fetch_pr(client, raw) ==
    LoggedOption(call_api_and_get_client(client, raw.main, raw.backup))

\* GitHubClient::fetch_issue (the issue itself; its timeline is modelled by
\* find_closing_prs)
fetch_issue(client, raw) ==
    LoggedOption(call_api_and_get_client(client, raw.main, raw.backup))

(***************************************************************************)
(* Backends (backend/mod.rs, git_backend.rs, github_backend.rs)            *)
(***************************************************************************)

\* GitBackend over a local repository (with or without a GitHub remote) and
\* GitHubBackend over a client.
Backends ==
    { [kind |-> "Git", has_repo_info |-> r,
       client |-> [is_authenticated |-> FALSE, backup_built |-> FALSE]] : r \in BOOLEAN }
    \cup { [kind |-> "GitHub", has_repo_info |-> TRUE, client |-> c] : c \in Clients }

\* What the world answers to one backend call: the API call's end on the
\* main and on the backup client (the backup is only asked after a SAML or
\* bad-credentials failure), or whether the local repository has the object.
Raws(b) ==
    IF b.kind = "Git"
    THEN { [main |-> "ok", backup |-> "ok", local |-> l] : l \in BOOLEAN }
    ELSE UNION { { [main |-> m, backup |-> k, local |-> FALSE] :
                     k \in IF m \in {"saml", "bad_credentials"}
                            THEN ApiOutcomes ELSE {"ok"} } :
                 m \in ApiOutcomes }

BackendErr(e, cause, ns) == [ok |-> FALSE, err |-> e, cause |-> cause, notices |-> ns]
BackendOk(ns) == [ok |-> TRUE, err |-> "none", cause |-> "none", notices |-> ns]

\* A client Option turned into a WtgResult by ok_or_else(NotFound).
OkOrNotFound(o) ==
    IF o.some THEN BackendOk(o.notices) ELSE BackendErr("NotFound", o.cause, o.notices)

\* Backend::find_commit
Backend_find_commit(b, raw) ==
    IF b.kind = "Git"
    THEN IF raw.local THEN BackendOk(<<>>) ELSE BackendErr("NotFound", "none", <<>>)
    ELSE OkOrNotFound(fetch_commit_full_info(b.client, raw))

\* Backend::fetch_pr (GitBackend keeps the trait's default)
Backend_fetch_pr(b, raw) ==
    IF b.kind = "Git" THEN BackendErr("Unsupported", "none", <<>>)
    ELSE OkOrNotFound(fetch_pr(b.client, raw))

\* Backend::fetch_issue (GitBackend keeps the trait's default)
Backend_fetch_issue(b, raw) ==
    IF b.kind = "Git" THEN BackendErr("Unsupported", "none", <<>>)
    ELSE OkOrNotFound(fetch_issue(b.client, raw))

\* Backend::find_file (GitHubBackend keeps the trait's default)
Backend_find_file(b, raw) ==
    IF b.kind = "Git"
    THEN IF raw.local THEN BackendOk(<<>>) ELSE BackendErr("NotFound", "none", <<>>)
    ELSE BackendErr("Unsupported", "none", <<>>)

\* Backend::find_tag (GitHubBackend keeps the trait's default)
Backend_find_tag(b, raw) ==
    IF b.kind = "Git"
    THEN IF raw.local THEN BackendOk(<<>>) ELSE BackendErr("NotFound", "none", <<>>)
    ELSE BackendErr("Unsupported", "none", <<>>)

\* Backend::for_repo: None by default, a GitHubBackend sharing the client
\* for GitHubBackend.
Backend_for_repo(b) ==
    IF b.kind = "GitHub"
    THEN [some |-> TRUE,
          backend |-> [kind |-> "GitHub", has_repo_info |-> TRUE, client |-> b.client]]
    ELSE [some |-> FALSE, backend |-> b]

(***************************************************************************)
(* Resolver (resolution.rs)                                                *)
(***************************************************************************)

Queries ==
    { [kind |-> k, numeric |-> FALSE] : k \in {"GitCommit", "FilePath"} }
    \cup { [kind |-> k, numeric |-> TRUE] : k \in {"Pr", "Issue", "IssueOrPr"} }
    \cup { [kind |-> "Unknown", numeric |-> n] : n \in BOOLEAN }

\* The first closing PR of a fetched issue: absent, or a PR with or without
\* a merge commit whose repository is the issue's ("same"), another one
\* ("other") or unknown ("none").
NoClosingPr == [present |-> FALSE, sha |-> FALSE, repo |-> "none"]

ClosingPrs ==
    { NoClosingPr }
    \cup { [present |-> TRUE, sha |-> s, repo |-> r] :
             s \in BOOLEAN, r \in {"same", "other", "none"} }

Call(op, on) == [op |-> op, on |-> on]

RErr(r, cs) ==
    [ok |-> FALSE, err |-> r.err, cause |-> r.cause, calls |-> cs,
     notices |-> r.notices, entry |-> "none", commit |-> FALSE, release |-> "none",
     closing |-> NoClosingPr]
ROk(entry_point, cs, ns, commit, release) ==
    [ok |-> TRUE, err |-> "none", cause |-> "none", calls |-> cs,
     notices |-> ns, entry |-> entry_point, commit |-> commit, release |-> release,
     closing |-> NoClosingPr]

\* The result of resolve_issue carries the closing PR it found (pr).
WithPr(r, closing) == [r EXCEPT !.closing = closing]

\* resolve_commit: rc is the world's answer to find_commit, rel whether the
\* backend finds a release for the commit.
resolve_commit(b, rc, rel) ==
    LET fc == Backend_find_commit(b, rc)
    IN IF ~fc.ok THEN RErr(fc, <<Call("find_commit", "self")>>)
       ELSE ROk("Commit",
                <<Call("find_commit", "self"), Call("enrich_commit", "self"),
                  Call("find_release_for_commit", "self")>>,
                fc.notices, TRUE, IF rel THEN "self" ELSE "none")

\* resolve_pr: sha tells whether the PR has a merge commit
\* (find_commit_for_pr, whose error is dropped by .ok()).
resolve_pr(b, rp, sha, rc, rel) ==
    LET fp == Backend_fetch_pr(b, rp)
        fc == Backend_find_commit(b, rc)
        commit == sha /\ fc.ok
    IN IF ~fp.ok THEN RErr(fp, <<Call("fetch_pr", "self")>>)
       ELSE ROk("PullRequestNumber",
                <<Call("fetch_pr", "self"), Call("find_commit_for_pr", "self")>>
                  \o (IF sha THEN <<Call("find_commit", "self")>> ELSE <<>>)
                  \o (IF commit
                      THEN <<Call("enrich_commit", "self"),
                             Call("find_release_for_commit", "self")>>
                      ELSE <<>>),
                fp.notices \o (IF sha THEN fc.notices ELSE <<>>),
                commit, IF commit /\ rel THEN "self" ELSE "none")

\* resolve_issue as in backend/mod.rs: the release of a cross-repository
\* closing PR is asked of the sibling backend only.
resolve_issue_sibling_only(b, ri, closing, rc, rel_self, rel_sib) ==
    LET fi == Backend_fetch_issue(b, ri)
        is_cross_repo == closing.repo = "other" /\ b.has_repo_info
        sib == Backend_for_repo(b)
        on == IF is_cross_repo THEN "sibling" ELSE "self"
        fc == Backend_find_commit(IF is_cross_repo THEN sib.backend ELSE b, rc)
    IN IF ~fi.ok THEN RErr(fi, <<Call("fetch_issue", "self")>>)
       ELSE IF ~closing.present \/ ~closing.sha
       THEN WithPr(ROk("IssueNumber", <<Call("fetch_issue", "self")>>,
                       fi.notices, FALSE, "none"), closing)
       ELSE IF is_cross_repo /\ ~sib.some
       THEN WithPr(ROk("IssueNumber",
                       <<Call("fetch_issue", "self"), Call("for_repo", "self")>>,
                       fi.notices, FALSE, "none"), closing)
       ELSE WithPr(ROk("IssueNumber",
                <<Call("fetch_issue", "self")>>
                  \o (IF is_cross_repo THEN <<Call("for_repo", "self")>> ELSE <<>>)
                  \o <<Call("find_commit", on)>>
                  \o (IF fc.ok
                      THEN <<Call("enrich_commit", on), Call("find_release_for_commit", on)>>
                      ELSE <<>>),
                fi.notices \o fc.notices,
                fc.ok,
                IF ~fc.ok THEN "none"
                ELSE IF is_cross_repo THEN (IF rel_sib THEN "sibling" ELSE "none")
                ELSE (IF rel_self THEN "self" ELSE "none")), closing)

\* resolve_issue: ri is the world's answer to fetch_issue, closing the first
\* closing PR, rc the answer to the merge commit's lookup, rel_self and
\* rel_sib whether the issue's backend and the sibling find a release.
resolve_issue(b, ri, closing, rc, rel_self, rel_sib) ==
    LET fi == Backend_fetch_issue(b, ri)
        is_cross_repo == closing.repo = "other" /\ b.has_repo_info
        sib == Backend_for_repo(b)
        on == IF is_cross_repo THEN "sibling" ELSE "self"
        fc == Backend_find_commit(IF is_cross_repo THEN sib.backend ELSE b, rc)
    IN IF ~fi.ok THEN RErr(fi, <<Call("fetch_issue", "self")>>)
       ELSE IF ~closing.present \/ ~closing.sha
       THEN WithPr(ROk("IssueNumber", <<Call("fetch_issue", "self")>>,
                       fi.notices, FALSE, "none"), closing)
       ELSE IF is_cross_repo /\ ~sib.some
       THEN WithPr(ROk("IssueNumber",
                       <<Call("fetch_issue", "self"), Call("for_repo", "self")>>,
                       fi.notices, FALSE, "none"), closing)
       ELSE WithPr(ROk("IssueNumber",
                <<Call("fetch_issue", "self")>>
                  \o (IF is_cross_repo THEN <<Call("for_repo", "self")>> ELSE <<>>)
                  \o <<Call("find_commit", on)>>
                  \o (IF fc.ok
                      THEN <<Call("enrich_commit", on),
                             Call("find_release_for_commit", "self")>>
                           \o (IF is_cross_repo /\ ~rel_self
                               THEN <<Call("find_release_for_commit", "sibling")>>
                               ELSE <<>>)
                      ELSE <<>>),
                fi.notices \o fc.notices,
                fc.ok,
                IF ~fc.ok THEN "none"
                ELSE IF rel_self THEN "self"
                ELSE IF is_cross_repo /\ rel_sib THEN "sibling"
                ELSE "none"), closing)

\* resolve_file
resolve_file(b, rf, rel) ==
    LET ff == Backend_find_file(b, rf)
    IN IF ~ff.ok THEN RErr(ff, <<Call("find_file", "self")>>)
       ELSE ROk("File",
                <<Call("find_file", "self"), Call("find_release_for_commit", "self")>>,
                ff.notices, TRUE, IF rel THEN "self" ELSE "none")

\* resolve_tag
resolve_tag(b, rt) ==
    LET ft == Backend_find_tag(b, rt)
    IN IF ~ft.ok THEN RErr(ft, <<Call("find_tag", "self")>>)
       ELSE ROk("Tag", <<Call("find_tag", "self")>>, ft.notices, FALSE, "none")

\* resolve: the probe a query starts with.
FirstProbe(q) ==
    CASE q.kind \in {"GitCommit", "Unknown"} -> "commit"
      [] q.kind \in {"Pr", "IssueOrPr"} -> "pr"
      [] q.kind = "Issue" -> "issue"
      [] OTHER -> "file"

\* NextProbe with the issue probed before the PR.
NextProbeIssueFirst(q, probe) ==
    IF q.kind = "Unknown"
    THEN CASE probe = "commit" -> (IF q.numeric THEN "issue" ELSE "file")
           [] probe = "issue" -> "pr"
           [] probe = "pr" -> "file"
           [] probe = "file" -> "tag"
           [] OTHER -> "none"
    ELSE IF q.kind = "IssueOrPr" /\ probe = "pr" THEN "issue"
    ELSE "none"

\* resolve / resolve_unknown: the probe tried after `probe` failed, "none"
\* when the failure ends the resolution.
NextProbe(q, probe) ==
    IF q.kind = "Unknown"
    THEN CASE probe = "commit" -> (IF q.numeric THEN "pr" ELSE "file")
           [] probe = "pr" -> "issue"
           [] probe = "issue" -> "file"
           [] probe = "file" -> "tag"
           [] OTHER -> "none"
    ELSE IF q.kind = "IssueOrPr" /\ probe = "pr" THEN "issue"
    ELSE "none"

\* resolve / resolve_unknown: the error returned when the last probe failed
\* with err: NotFound for IssueOrPr and Unknown, the probe's error otherwise.
FinalError(q, err) ==
    IF q.kind \in {"Unknown", "IssueOrPr"} THEN "NotFound" ELSE err

\* One probe has returned r: return its result, or go on to the next probe.
Finish(probe, r) ==
    /\ probe_log' = Append(probe_log,
                           [probe |-> probe, ok |-> r.ok, err |-> r.err,
                            cause |-> r.cause, closing |-> r.closing])
    /\ calls_log' = calls_log \o r.calls
    /\ notices' = notices \o r.notices
    /\ IF r.ok
       THEN /\ rpc' = "done"
            /\ outcome' = [status |-> "Ok", err |-> "none", entry |-> r.entry,
                           commit |-> r.commit, release |-> r.release]
       ELSE IF NextProbe(query, probe) = "none"
       THEN /\ rpc' = "done"
            /\ outcome' = [status |-> "Err", err |-> FinalError(query, r.err),
                           entry |-> "none", commit |-> FALSE, release |-> "none"]
       ELSE /\ rpc' = NextProbe(query, probe)
            /\ UNCHANGED outcome
    /\ UNCHANGED <<query, backend, nonResolverVars>>

ProbeCommit ==
    /\ rpc = "commit"
    /\ \E rc \in Raws(backend), rel \in BOOLEAN :
          Finish("commit", resolve_commit(backend, rc, rel))

ProbePr ==
    /\ rpc = "pr"
    /\ \E rp \in Raws(backend), sha \in BOOLEAN, rc \in Raws(backend), rel \in BOOLEAN :
          Finish("pr", resolve_pr(backend, rp, sha, rc, rel))

ProbeIssue ==
    /\ rpc = "issue"
    /\ \E ri \in Raws(backend), closing \in ClosingPrs, rc \in Raws(backend),
          rel_self \in BOOLEAN, rel_sib \in BOOLEAN :
          Finish("issue", resolve_issue(backend, ri, closing, rc, rel_self, rel_sib))

ProbeFile ==
    /\ rpc = "file"
    /\ \E rf \in Raws(backend), rel \in BOOLEAN :
          Finish("file", resolve_file(backend, rf, rel))

ProbeTag ==
    /\ rpc = "tag"
    /\ \E rt \in Raws(backend) : Finish("tag", resolve_tag(backend, rt))

\* No cache operation is running.
CacheIdle ==
    /\ entry = LocalEntry("GitRepo", FALSE, FALSE, FALSE)
    /\ fetch_state = FetchStateDefault
    /\ local_commits = {}
    /\ repo_shallow = FALSE
    /\ remote_refs = {}
    /\ callers = [c \in Callers |-> IdleCaller]
    /\ absent_probed = {}
    /\ calls = 0

InitResolve ==
    /\ ParserIdle
    /\ FuncIdle
    /\ CacheIdle
    /\ TimelineIdle
    /\ SelectIdle
    /\ query \in Queries
    /\ backend \in Backends
    /\ rpc = FirstProbe(query)
    /\ probe_log = <<>>
    /\ calls_log = <<>>
    /\ notices = <<>>
    /\ outcome = [status |-> "none", err |-> "none", entry |-> "none",
                  commit |-> FALSE, release |-> "none"]

NextResolve == ProbeCommit \/ ProbePr \/ ProbeIssue \/ ProbeFile \/ ProbeTag

\* One query resolved against one backend.
SpecResolve == InitResolve /\ [][NextResolve]_vars

(***************************************************************************)
(* Claims about the resolver                                               *)
(***************************************************************************)

PropagatingErrors == {"GhRateLimit", "GhSaml", "Timeout", "Io"}

\* C3: in Unknown and IssueOrPr resolution a probe that fails with a
\* rate-limit, SAML, timeout or I/O error is the last probe run and the
\* resolution returns that error; only a NotFound or Unsupported failure is
\* followed by another probe.
C3_PropagatingErrorAborts ==
    query.kind \in {"Unknown", "IssueOrPr"} =>
        \A i \in 1..Len(probe_log) :
            /\ probe_log[i].cause \in PropagatingErrors =>
                  /\ i = Len(probe_log)
                  /\ rpc = "done"
                  /\ outcome.status = "Err"
                  /\ outcome.err = probe_log[i].cause
            /\ i < Len(probe_log) => probe_log[i].err \in {"NotFound", "Unsupported"}

\* C4: a Pr query whose API call is answered with a rate limit (HTTP 429)
\* yields no result: the resolution ends with the GhRateLimit error, not
\* with NotFound, and exactly one GhRateLimitHit notice has been emitted.
C4_PrRateLimitSurfaces ==
    ( /\ rpc = "done"
      /\ query.kind = "Pr"
      /\ Len(probe_log) = 1
      /\ probe_log[1].cause = "GhRateLimit" )
    => /\ outcome.status = "Err"
       /\ outcome.err = "GhRateLimit"
       /\ Len(notices) = 1
       /\ notices[1].kind = "GhRateLimitHit"

\* The order resolve_unknown is claimed to probe in.
ClaimedOrder(q) ==
    <<"commit">> \o (IF q.numeric THEN <<"pr", "issue">> ELSE <<>>) \o <<"file", "tag">>

EntryPointOf(probe) ==
    CASE probe = "commit" -> "Commit"
      [] probe = "pr" -> "PullRequestNumber"
      [] probe = "issue" -> "IssueNumber"
      [] probe = "file" -> "File"
      [] OTHER -> "Tag"

\* C8: resolve_unknown probes commit, then (only when the input parses as
\* u64) PR then issue, then file, then tag; the first probe that succeeds
\* is the result and no later probe runs; when every probe fails the result
\* is NotFound(input).
C8_UnknownProbeOrder ==
    query.kind = "Unknown" =>
        LET n == Len(probe_log)
            order == ClaimedOrder(query)
        IN /\ n <= Len(order)
           /\ \A i \in 1..n : probe_log[i].probe = order[i]
           /\ \A i \in 1..n : i < n => ~probe_log[i].ok
           /\ rpc # "done" =>
                 /\ n < Len(order)
                 /\ rpc = order[n + 1]
                 /\ \A i \in 1..n : ~probe_log[i].ok
           /\ rpc = "done" =>
                 /\ n >= 1
                 /\ IF probe_log[n].ok
                    THEN /\ outcome.status = "Ok"
                         /\ outcome.entry = EntryPointOf(probe_log[n].probe)
                    ELSE /\ n = Len(order)
                         /\ outcome.status = "Err"
                         /\ outcome.err = "NotFound"

\* A numeric input resolved as an issue after the commit and PR probes
\* failed.
C8_Witness ==
    /\ query.kind = "Unknown"
    /\ query.numeric
    /\ rpc = "done"
    /\ Len(probe_log) = 3
    /\ outcome.status = "Ok"
    /\ outcome.entry = "IssueNumber"

\* C9: for an Issue query whose first closing PR lies in another repository
\* and has a merge commit, the resolver asks its backend for a sibling
\* (for_repo), looks the merge commit up through the sibling, and once the
\* commit is found asks the issue's own backend for the release first and
\* the sibling only when the issue's backend found none.
C9_CrossRepoRelease ==
    ( /\ rpc = "done"
      /\ query.kind = "Issue"
      /\ outcome.status = "Ok"
      /\ probe_log[1].closing.present
      /\ probe_log[1].closing.sha
      /\ probe_log[1].closing.repo = "other"
      /\ backend.has_repo_info )
    => /\ Len(calls_log) >= 3
       /\ calls_log[1] = Call("fetch_issue", "self")
       /\ calls_log[2] = Call("for_repo", "self")
       /\ calls_log[3] = Call("find_commit", "sibling")
       /\ \A i \in 1..Len(calls_log) : calls_log[i] # Call("find_commit", "self")
       /\ IF outcome.commit
          THEN /\ Len(calls_log) >= 5
               /\ calls_log[4] = Call("enrich_commit", "sibling")
               /\ calls_log[5] = Call("find_release_for_commit", "self")
               /\ IF outcome.release = "self"
                  THEN Len(calls_log) = 5
                  ELSE /\ Len(calls_log) = 6
                       /\ calls_log[6] = Call("find_release_for_commit", "sibling")
          ELSE /\ Len(calls_log) = 3
               /\ outcome.release = "none"

\* The release came from the sibling after the issue's backend found none.
C9_Witness ==
    /\ rpc = "done"
    /\ query.kind = "Issue"
    /\ outcome.status = "Ok"
    /\ probe_log[1].closing.repo = "other"
    /\ outcome.release = "sibling"
    /\ Len(calls_log) = 6

(***************************************************************************)
(* Closing-PR discovery (github.rs find_closing_prs)                       *)
(***************************************************************************)

\* PRs the timeline can refer to: a PR is its (number, owner, repo).
PrIds == 1..NumPrs

\* A timeline event: its type and its source, which is absent, an issue
\* that is no PR, or a PR.
EventTypes == {"Closed", "CrossReferenced", "Referenced", "Other"}
Events ==
    { [type |-> t, source |-> "pr", pr |-> n] : t \in EventTypes, n \in PrIds }
    \cup { [type |-> t, source |-> k, pr |-> 0] : t \in EventTypes, k \in {"none", "issue"} }

\* closing_prs.iter().any(same number, owner and repo)
AlreadyListed(prs, pr) == \E i \in 1..Len(prs) : prs[i] = pr

\* The body of `for event in &current_page.items` for one event: fetched
\* tells whether fetch_pr returned the PR, merged whether it is merged.
\* Gives the new list and whether the loop over the page was left (break).
VisitEvent(prs, e, fetched, merged) ==
    IF e.source # "pr" THEN [prs |-> prs, brk |-> FALSE]
    ELSE IF ~fetched THEN [prs |-> prs, brk |-> FALSE]
    ELSE IF ~merged THEN [prs |-> prs, brk |-> FALSE]
    ELSE IF e.type = "Closed" THEN [prs |-> Append(prs, e.pr), brk |-> TRUE]
    ELSE IF e.type \notin {"CrossReferenced", "Referenced"}
    THEN [prs |-> prs, brk |-> FALSE]
    ELSE IF ~AlreadyListed(prs, e.pr)
    THEN [prs |-> Append(prs, e.pr), brk |-> FALSE]
    ELSE [prs |-> prs, brk |-> FALSE]

\* find_closing_prs: the first page is asked through
\* call_api_and_get_client; an error returns (empty, false).
FirstPage ==
    /\ tpc = "first_page"
    /\ \E raw \in Raws([kind |-> "GitHub"]), n \in 0..MaxEvents :
         LET r == call_api_and_get_client(tclient, raw.main, raw.backup)
         IN IF r.ok
            THEN /\ tpc' = "events"
                 /\ saml_fallback' = (r.selection = "FallbackSaml")
                 /\ page_no' = 1
                 /\ events_left' = n
            ELSE /\ tpc' = "done"
                 /\ UNCHANGED <<saml_fallback, page_no, events_left>>
    /\ UNCHANGED <<tclient, closing_prs, closed_pr, after_closed, nonTimelineVars>>

\* One event of the current page is visited.
TimelineEvent ==
    /\ tpc = "events"
    /\ events_left > 0
    /\ \E e \in Events, fetched \in BOOLEAN, merged \in BOOLEAN :
         LET v == VisitEvent(closing_prs, e, fetched, merged)
             closes == e.source = "pr" /\ fetched /\ merged /\ e.type = "Closed"
         IN /\ closing_prs' = v.prs
            /\ events_left' = IF v.brk THEN 0 ELSE events_left - 1
            /\ closed_pr' = IF closed_pr = 0 /\ closes THEN e.pr ELSE closed_pr
            /\ after_closed' = IF closed_pr # 0 THEN after_closed + 1 ELSE after_closed
    /\ UNCHANGED <<tpc, tclient, saml_fallback, page_no, nonTimelineVars>>

\* The page is exhausted (or was left by break): get_page(next) gives the
\* next page, or none (no next link, or the request failed) and the walk
\* ends.
NextPage ==
    /\ tpc = "events"
    /\ events_left = 0
    /\ \/ /\ page_no < MaxPages
          /\ \E n \in 0..MaxEvents : events_left' = n
          /\ page_no' = page_no + 1
          /\ after_closed' = IF closed_pr # 0 THEN after_closed + 1 ELSE after_closed
          /\ UNCHANGED tpc
       \/ /\ tpc' = "done"
          /\ UNCHANGED <<page_no, events_left, after_closed>>
    /\ UNCHANGED <<tclient, closing_prs, saml_fallback, closed_pr, nonTimelineVars>>

InitTimeline ==
    /\ ParserIdle
    /\ FuncIdle
    /\ CacheIdle
    /\ ResolverIdle
    /\ SelectIdle
    /\ tpc = "first_page"
    /\ tclient \in Clients
    /\ closing_prs = <<>>
    /\ saml_fallback = FALSE
    /\ page_no = 0
    /\ events_left = 0
    /\ closed_pr = 0
    /\ after_closed = 0

NextTimeline == FirstPage \/ TimelineEvent \/ NextPage

\* One closed issue's timeline walked by find_closing_prs.
SpecTimeline == InitTimeline /\ [][NextTimeline]_vars

\* C5: once a Closed event whose source is a merged PR has been visited,
\* the closing-PR list holds exactly that one PR and no later event or page
\* is processed.
C5_ClosedEventEndsWalk ==
    closed_pr # 0 => closing_prs = <<closed_pr>> /\ after_closed = 0

(***************************************************************************)
(* Release selection on the local-ancestry path (git.rs, git_backend.rs)   *)
(***************************************************************************)

\* A tag of the repository: ts is the time of the commit it points to,
\* contains whether that commit is the target or a descendant of it, semver
\* whether parse_semver accepts its name, released whether a GitHub release
\* is attached to it.  Commit times are whatever the committer's clock said:
\* they do not follow ancestry.
TagWorlds ==
    [TagIds -> [ts : Timestamps, contains : BOOLEAN, semver : BOOLEAN,
                released : BOOLEAN]]

TagInfo(t, w, is_release) ==
    [id |-> t, ts |-> w[t].ts, semver |-> w[t].semver, is_release |-> is_release]

\* The tags 1..n that pass the filter, in tag_names order.
RECURSIVE TagsWhere(_, _, _)
TagsWhere(n, w, keep) ==
    IF n = 0 THEN <<>>
    ELSE TagsWhere(n - 1, w, keep)
         \o (IF n \in keep THEN <<TagInfo(n, w, FALSE)>> ELSE <<>>)

\* GitRepo::find_tags_containing_commit (None is the empty sequence, as
\* tags_containing_commit's unwrap_or_default makes it): tags whose commit
\* is older than the target are skipped, the others are kept when they are
\* the target or descend from it; is_release is false for each.
find_tags_containing_commit(w, tts) ==
    TagsWhere(NumTags, w, { t \in TagIds : ~(w[t].ts < tts) /\ w[t].contains })

\* Iterator::min_by_key: the first element with the least key.
RECURSIVE MinByTs(_)
MinByTs(tags) ==
    IF Len(tags) = 1 THEN tags[1]
    ELSE LET m == MinByTs(Tail(tags))
         IN IF tags[1].ts <= m.ts THEN tags[1] ELSE m

\* pick_best_tag::select_with_pred, the predicate given as the set of tags
\* it accepts: 0 stands for None.
select_with_pred(tags, accepted) ==
    LET Accepted(t) == t \in accepted
        kept == SelectSeq(tags, Accepted)
    IN IF kept = <<>> THEN 0 ELSE MinByTs(kept).id

\* GitBackend::pick_best_tag
pick_best_tag(tags) ==
    LET all == { tags[i] : i \in 1..Len(tags) }
        P1 == { t \in all : t.is_release /\ t.semver }
        P2 == { t \in all : ~t.is_release /\ t.semver }
        P3 == { t \in all : t.is_release /\ ~t.semver }
        P4 == { t \in all : ~t.is_release /\ ~t.semver }
    IN IF select_with_pred(tags, P1) # 0 THEN select_with_pred(tags, P1)
       ELSE IF select_with_pred(tags, P2) # 0 THEN select_with_pred(tags, P2)
       ELSE IF select_with_pred(tags, P3) # 0 THEN select_with_pred(tags, P3)
       ELSE select_with_pred(tags, P4)

\* GitBackend::find_release_for_commit -> find_best_tag_for_commit
FindBestTag ==
    /\ spc = "start"
    /\ path = "repo"
    /\ candidates' = find_tags_containing_commit(tag_world, target_ts)
    /\ best' = pick_best_tag(candidates')
    /\ spc' = "done"
    /\ UNCHANGED <<tag_world, target_ts, page_size, path, pages_fetched, cmp_idx,
                   nonSelectVars>>

\* pick_best_tag applied to candidates whose is_release a caller has set
\* (get_tags_with_releases marks the tags that have a GitHub release).
PickBestTag ==
    /\ spc = "start"
    /\ path = "given"
    /\ \E keep \in SUBSET TagIds :
         LET In(t) == t.id \in keep
             all == [i \in 1..NumTags |-> TagInfo(i, tag_world, tag_world[i].released)]
         IN candidates' = SelectSeq(all, In)
    /\ best' = pick_best_tag(candidates')
    /\ spc' = "done"
    /\ UNCHANGED <<tag_world, target_ts, page_size, path, pages_fetched, cmp_idx,
                   nonSelectVars>>

InitTags ==
    /\ ParserIdle
    /\ FuncIdle
    /\ CacheIdle
    /\ ResolverIdle
    /\ TimelineIdle
    /\ tag_world \in TagWorlds
    /\ target_ts \in Timestamps
    /\ page_size = 1
    /\ spc = "start"
    /\ path \in {"repo", "given"}
    /\ candidates = <<>>
    /\ pages_fetched = 0
    /\ cmp_idx = 0
    /\ best = 0

NextTags == FindBestTag \/ PickBestTag

\* One release lookup through the local repository.
SpecTags == InitTags /\ [][NextTags]_vars

\* The claimed tier of a tag: 1 is the highest.
ClaimedTier(t) ==
    IF tag_world[t].released /\ tag_world[t].semver THEN 1
    ELSE IF tag_world[t].semver THEN 2
    ELSE IF tag_world[t].released THEN 3
    ELSE 4

\* C6: on the local-ancestry path find_release_for_commit returns None
\* exactly when no tag contains the commit; otherwise it returns a
\* containing tag of the highest non-empty tier (released and semver, then
\* unreleased and semver, then released and not semver, then unreleased and
\* not semver; released: a GitHub release is attached to the tag) whose
\* commit timestamp is minimal within that tier.
C6_BestContainingTag ==
    (spc = "done" /\ path = "repo") =>
        LET containing == { t \in TagIds : tag_world[t].contains }
        IN /\ best = 0 <=> containing = {}
           /\ best # 0 =>
                 /\ best \in containing
                 /\ \A u \in containing :
                       /\ ClaimedTier(best) <= ClaimedTier(u)
                       /\ ClaimedTier(u) = ClaimedTier(best)
                            => tag_world[best].ts <= tag_world[u].ts

(***************************************************************************)
(* Release selection on the API path (github.rs, github_backend.rs)        *)
(***************************************************************************)

\* Here tag_world lists the repository's releases in the order the API
\* returns them (ts is created_at, contains whether compare(tag, commit) is
\* behind or identical) and target_ts is the `since` date.

\* The releases of API page p.
PageItems(p) ==
    [i \in 1..(IF p * page_size <= NumTags THEN page_size
               ELSE IF (p - 1) * page_size >= NumTags THEN 0
               ELSE NumTags - (p - 1) * page_size)
       |-> TagInfo((p - 1) * page_size + i, tag_world, TRUE)]

\* current_page.next.is_none()
NoNextPage(p) == p * page_size >= NumTags

\* sort_by(|a, b| b.created_at.cmp(&a.created_at)): stable, newest first.
RECURSIVE InsertDesc(_, _)
InsertDesc(sorted, x) ==
    IF sorted = <<>> THEN <<x>>
    ELSE IF sorted[1].ts >= x.ts THEN <<sorted[1]>> \o InsertDesc(Tail(sorted), x)
    ELSE <<x>> \o sorted

RECURSIVE SortDesc(_)
SortDesc(items) ==
    IF items = <<>> THEN <<>>
    ELSE InsertDesc(SortDesc(SubSeq(items, 1, Len(items) - 1)), items[Len(items)])

\* The releases of a sorted page pushed before the first one older than
\* since (where `break 'pagintaion` leaves both loops).
RECURSIVE TakeSince(_, _)
TakeSince(items, since) ==
    IF items = <<>> \/ items[1].ts < since THEN <<>>
    ELSE <<items[1]>> \o TakeSince(Tail(items), since)

\* A turn of the pagination loop that checks the cutoff on the page as the
\* API returned it.
ReleasesOfPageUnsorted(p, since) ==
    LET taken == TakeSince(PageItems(p), since)
    IN [pushed |-> taken,
        more |-> PageItems(p) # <<>> /\ Len(taken) = Len(PageItems(p)) /\ ~NoNextPage(p)]

\* fetch_releases_since, one turn of the pagination loop on page p: the
\* releases pushed and whether the loop goes on to request page p + 1.
ReleasesOfPage(p, since) ==
    LET sorted == SortDesc(PageItems(p))
        taken == TakeSince(sorted, since)
    IN [pushed |-> taken,
        more |-> PageItems(p) # <<>> /\ Len(taken) = Len(sorted) /\ ~NoNextPage(p)]

\* fetch_releases_since: the first page, asked through
\* call_api_and_get_client; an error returns the empty list.
ReleasesFirstPage ==
    /\ spc = "start"
    /\ path = "api"
    /\ \E raw \in Raws([kind |-> "GitHub"]), client \in Clients :
         LET r == call_api_and_get_client(client, raw.main, raw.backup)
             turn == ReleasesOfPage(1, target_ts)
         IN IF r.ok
            THEN /\ candidates' = turn.pushed
                 /\ spc' = IF turn.more THEN "paging" ELSE "compare"
            ELSE /\ candidates' = <<>>
                 /\ spc' = "compare"
    /\ pages_fetched' = 1
    /\ cmp_idx' = 1
    /\ UNCHANGED <<tag_world, target_ts, page_size, path, best, nonSelectVars>>

\* fetch_releases_since: the next page is requested; an error ends the
\* pagination with what was collected.
ReleasesNextPage ==
    /\ spc = "paging"
    /\ \E ok \in BOOLEAN :
         LET turn == ReleasesOfPage(pages_fetched + 1, target_ts)
         IN IF ok
            THEN /\ candidates' = candidates \o turn.pushed
                 /\ spc' = IF turn.more THEN "paging" ELSE "compare"
            ELSE /\ UNCHANGED candidates
                 /\ spc' = "compare"
    /\ pages_fetched' = pages_fetched + 1
    /\ UNCHANGED <<tag_world, target_ts, page_size, path, cmp_idx, best, nonSelectVars>>

\* find_release_for_commit_impl: one turn of `for release in releases`;
\* fetch_tag_info_for_release is Some when the compare call succeeds with
\* status behind or identical, and the first Some is returned.
CompareRelease ==
    /\ spc = "compare"
    /\ IF cmp_idx > Len(candidates)
       THEN /\ best' = 0
            /\ spc' = "done"
            /\ UNCHANGED cmp_idx
       ELSE \E compared \in BOOLEAN :
              IF compared /\ tag_world[candidates[cmp_idx].id].contains
              THEN /\ best' = candidates[cmp_idx].id
                   /\ spc' = "done"
                   /\ UNCHANGED cmp_idx
              ELSE /\ cmp_idx' = cmp_idx + 1
                   /\ UNCHANGED <<best, spc>>
    /\ UNCHANGED <<tag_world, target_ts, page_size, path, candidates, pages_fetched,
                   nonSelectVars>>

InitApiReleases ==
    /\ ParserIdle
    /\ FuncIdle
    /\ CacheIdle
    /\ ResolverIdle
    /\ TimelineIdle
    /\ tag_world \in { w \in TagWorlds : \A t \in TagIds : w[t].released }
    /\ target_ts \in Timestamps
    /\ page_size \in 1..NumTags
    /\ spc = "start"
    /\ path = "api"
    /\ candidates = <<>>
    /\ pages_fetched = 0
    /\ cmp_idx = 0
    /\ best = 0

NextApiReleases == ReleasesFirstPage \/ ReleasesNextPage \/ CompareRelease

\* One release lookup through the GitHub API.
SpecApiReleases == InitApiReleases /\ [][NextApiReleases]_vars

\* C7: on the API path the release find_release_for_commit reports is the
\* earliest one containing the commit: no other release whose compare
\* status is behind or identical was created before the returned one.
C7_EarliestContainingRelease ==
    (spc = "done" /\ path = "api" /\ best # 0) =>
        \A u \in TagIds :
            tag_world[u].contains => tag_world[best].ts <= tag_world[u].ts

\* ---------------------------------------------------------------------
\* Input parser (parse_input.rs)
\* ---------------------------------------------------------------------

\* Text is a sequence of characters.  "a" stands for a letter, "7" for a
\* digit, "LF" for a whitespace control character (LF, CR and TAB are
\* treated alike by str::trim and char::is_control), "NUL" for a control
\* character that is not whitespace.  Three URL heads and four route
\* words are single symbols.
GitHubHead == "https://github.com/"
SshHead == "git@github.com:"
OtherHead == "https://example.com/"
HostHead == "github.com/"
RouteWords == {"commit", "issues", "pull", "blob"}
Chars == {"a", "7", "#", " ", "LF", "NUL", "/", "."}

\* char::is_whitespace
IsWhitespace(c) == c \in {" ", "LF"}
\* char::is_control
IsControl(c) == c \in {"LF", "NUL"}
\* char::is_ascii_alphanumeric
IsAlnum(c) == c \in {"a", "7"} \cup RouteWords
IsDigit(c) == c = "7"

RECURSIVE trim_start(_)
trim_start(s) ==
    IF s # <<>> /\ IsWhitespace(Head(s)) THEN trim_start(Tail(s)) ELSE s

RECURSIVE trim_end(_)
trim_end(s) ==
    IF s # <<>> /\ IsWhitespace(s[Len(s)])
    THEN trim_end(SubSeq(s, 1, Len(s) - 1))
    ELSE s

\* str::trim
trim(s) == trim_end(trim_start(s))

\* str::split(c): the pieces between the occurrences of c, empty pieces
\* included.
RECURSIVE split(_, _)
split(s, c) ==
    IF \A i \in 1..Len(s) : s[i] # c
    THEN <<s>>
    ELSE LET k == CHOOSE i \in 1..Len(s) :
                      s[i] = c /\ \A j \in 1..(i - 1) : s[j] # c
         IN  <<SubSeq(s, 1, k - 1)>> \o split(SubSeq(s, k + 1, Len(s)), c)

\* str::parse::<u64>() succeeds
ParsesAsNumber(s) == s # <<>> /\ \A i \in 1..Len(s) : IsDigit(s[i])

NonEmpty(seg) == seg # <<>>

collect_segments(p) == SelectSeq(split(p, "/"), NonEmpty)

\* A sanitize_query result: Ok(text) or Err(error).
sanitize_query(raw) ==
    LET trimmed == trim(raw)
    IN  IF trimmed = <<>> THEN PErr("EmptyInput")
        ELSE IF \E i \in 1..Len(trimmed) : IsControl(trimmed[i])
             THEN PErr("SecurityRejection")
             ELSE POk("text", trimmed, FALSE)

\* TRUE when sanitize_owner_repo_segment returns Some.
sanitize_owner_repo_segment(raw) ==
    LET trimmed == trim(raw)
    IN  /\ trimmed # <<>>
        /\ \A i \in 1..Len(trimmed) : IsAlnum(trimmed[i]) \/ trimmed[i] = "."

try_parse_input_str(raw) ==
    LET input == sanitize_query(raw)
    IN  IF ~input.ok THEN input
        ELSE IF Head(input.value) = "#" /\ ParsesAsNumber(Tail(input.value))
             THEN POk("IssueOrPr", Tail(input.value), FALSE)
             ELSE POk("Unknown", input.value, FALSE)

is_url_like(input) ==
    LET trimmed == trim(input)
    IN  /\ trimmed # <<>>
        /\ \/ Head(trimmed) \in {GitHubHead, OtherHead, SshHead}
           \/ Len(trimmed) >= 2 /\ trimmed[1] = "/" /\ trimmed[2] = "/"
           \/ \E i \in 1..Len(trimmed) : trimmed[i] \in {GitHubHead, OtherHead}

\* Url::parse on the text after a URL head, then set_fragment(None) and
\* path(): leading and trailing C0 controls and spaces are stripped, tabs
\* and newlines are removed, the fragment is cut, a remaining space or
\* control character is percent-encoded ("%") and dot segments resolved.
RECURSIVE StripC0End(_)
StripC0End(s) ==
    IF s # <<>> /\ s[Len(s)] \in {" ", "LF", "NUL"}
    THEN StripC0End(SubSeq(s, 1, Len(s) - 1))
    ELSE s

NotNewline(c) == c # "LF"

PercentEncode(s) ==
    [i \in 1..Len(s) |-> IF s[i] \in {" ", "NUL"} THEN "%" ELSE s[i]]

RECURSIVE ResolveDots(_, _)
ResolveDots(done, todo) ==
    IF todo = <<>> THEN done
    ELSE IF Head(todo) = <<".">> THEN ResolveDots(done, Tail(todo))
    ELSE IF Head(todo) = <<".", ".">>
         THEN ResolveDots(IF done = <<>> THEN done
                          ELSE SubSeq(done, 1, Len(done) - 1), Tail(todo))
         ELSE ResolveDots(Append(done, Head(todo)), Tail(todo))

UrlPathSegments(rest) ==
    LET cleaned == SelectSeq(StripC0End(rest), NotNewline)
        no_fragment == split(cleaned, "#")[1]
    IN  ResolveDots(<<>>, split(PercentEncode(no_fragment), "/"))

RECURSIVE JoinSegments(_)
JoinSegments(segs) ==
    IF segs = <<>> THEN <<>>
    ELSE IF Len(segs) = 1 THEN segs[1]
    ELSE segs[1] \o <<"/">> \o JoinSegments(Tail(segs))

\* Ok(segments) or Err(NotGitHubUrl); the host is never api.github.com.
parse_http_github_segments(url) ==
    IF url # <<>> /\ Head(url) \in {GitHubHead, HostHead}
    THEN [ok |-> TRUE,
          segments |-> collect_segments(
                           JoinSegments(UrlPathSegments(Tail(url))))]
    ELSE [ok |-> FALSE, segments |-> <<>>]

\* Some(segments) or None
parse_git_ssh_segments(url) ==
    LET normalized == trim(url)
    IN  IF normalized = <<>> \/ Head(normalized) # SshHead
        THEN [some |-> FALSE, segments |-> <<>>]
        ELSE [some |-> TRUE,
              segments |-> collect_segments(split(Tail(normalized), "#")[1])]

\* Some(rest of the segments) or None
split_url_segments(segments, is_api) ==
    LET min_segments == IF is_api THEN 3 ELSE 2
        owner_index == IF is_api THEN 2 ELSE 1
    IN  IF Len(segments) < min_segments
           \/ ~sanitize_owner_repo_segment(segments[owner_index])
           \/ ~sanitize_owner_repo_segment(segments[owner_index + 1])
        THEN [some |-> FALSE, rest |-> <<>>]
        ELSE [some |-> TRUE,
              rest |-> SubSeq(segments, owner_index + 2, Len(segments))]

owner_repo_from_segments(segments, is_api) ==
    split_url_segments(segments, is_api).some

\* The components of the PathBuf built from the path segments: a segment
\* sanitize_query rejects joins as the empty string, "." is no component.
RECURSIVE PathComponents(_)
PathComponents(segs) ==
    IF segs = <<>> THEN <<>>
    ELSE LET seg == sanitize_query(Head(segs))
         IN  IF seg.ok /\ seg.value # <<".">>
             THEN <<seg.value>> \o PathComponents(Tail(segs))
             ELSE PathComponents(Tail(segs))

\* TRUE when check_path returns Ok.  A path joined from URL segments is
\* never absolute.
check_path(components) ==
    /\ components # <<>>
    /\ \A i \in 1..Len(components) : components[i] # <<".", ".">>

parsed_input_from_segments(segments, is_api) ==
    LET sp == split_url_segments(segments, is_api)
        rest == sp.rest
    IN  IF ~sp.some \/ rest = <<>> THEN PErr("MalformedGitHubUrl")
        ELSE IF rest[1] = <<"commit">> /\ Len(rest) >= 2
             THEN LET q == sanitize_query(rest[2])
                  IN  IF q.ok THEN POk("GitCommit", q.value, TRUE) ELSE q
        ELSE IF rest[1] = <<"issues">> /\ Len(rest) >= 2
                /\ ParsesAsNumber(rest[2])
             THEN POk("Issue", rest[2], TRUE)
        ELSE IF rest[1] = <<"pull">> /\ Len(rest) >= 2
                /\ ParsesAsNumber(rest[2])
             THEN POk("Pr", rest[2], TRUE)
        ELSE IF rest[1] = <<"blob">> /\ Len(rest) >= 2
             THEN LET comps == PathComponents(SubSeq(rest, 3, Len(rest)))
                  IN  IF check_path(comps)
                      THEN POk("FilePath", JoinSegments(comps), TRUE)
                      ELSE PErr("MalformedGitHubUrl")
        ELSE PErr("MalformedGitHubUrl")

Panic == [PErr("panic") EXCEPT !.panic = TRUE]

\* A debug build stops at the debug_assert when the text is not clean.
try_parse_input_from_github_url(url, bld) ==
    IF bld = "debug" /\ ~sanitize_query(url).ok THEN Panic
    ELSE LET ssh == parse_git_ssh_segments(url)
             http == parse_http_github_segments(url)
         IN  IF ssh.some THEN parsed_input_from_segments(ssh.segments, FALSE)
             ELSE IF http.ok
                  THEN parsed_input_from_segments(http.segments, FALSE)
                  ELSE PErr("NotGitHubUrl")

\* TRUE when parse_github_repo_url returns Some.
parse_github_repo_url(url) ==
    LET trimmed == trim(url)
        ssh == parse_git_ssh_segments(trimmed)
        http == parse_http_github_segments(trimmed)
        parts == split(trimmed, "/")
    IN  IF trimmed = <<>> THEN FALSE
        ELSE IF ssh.some THEN owner_repo_from_segments(ssh.segments, FALSE)
        ELSE IF http.ok /\ owner_repo_from_segments(http.segments, FALSE)
             THEN TRUE
        ELSE /\ Len(parts) = 2
             /\ sanitize_owner_repo_segment(parts[1])
             /\ sanitize_owner_repo_segment(parts[2])

try_parse_input(raw, repo, bld) ==
    LET input == trim(raw)
    IN  IF repo.given
        THEN IF ~parse_github_repo_url(repo.url)
             THEN PErr("MalformedGitHubUrl")
             ELSE LET q == try_parse_input_str(input)
                  IN  IF q.ok THEN [q EXCEPT !.remote = TRUE] ELSE q
        ELSE IF input = <<>> THEN try_parse_input_str(input)
        ELSE LET u == try_parse_input_from_github_url(input, bld)
             IN  IF u.ok \/ u.panic THEN u
                 ELSE IF u.err \in {"NotGitHubUrl", "MalformedGitHubUrl"}
                      THEN IF is_url_like(input) THEN u
                           ELSE try_parse_input_str(input)
                      ELSE u

\* The texts of at most n characters.
Strings(n) == UNION { [1..k -> Chars] : k \in 0..n }

\* A GitHub-shaped URL: a head, owner/repo, a route and an argument.
UrlInputs ==
    { <<h, "a", "/", "a", "/">> \o route \o <<"/">> \o arg :
        h \in {GitHubHead, SshHead, OtherHead, HostHead},
        route \in { <<w>> : w \in RouteWords \ {"blob"} }
                  \cup { <<"blob", "/", "a">>, <<"a">> },
        arg \in Strings(MaxArg) }

RawInputs == Strings(MaxLen) \cup UrlInputs

\* No repo flag, a well-formed one (owner/repo) and a malformed one.
RepoFlags ==
    { [given |-> FALSE, url |-> <<>>],
      [given |-> TRUE, url |-> <<"a", "/", "a">>],
      [given |-> TRUE, url |-> <<"a">>] }

InitParse ==
    /\ CacheIdle
    /\ ResolverIdle
    /\ TimelineIdle
    /\ SelectIdle
    /\ FuncIdle
    /\ raw_input \in RawInputs
    /\ repo_flag \in RepoFlags
    /\ build \in {"debug", "release"}
    /\ ppc = "start"
    /\ parsed = PErr("none")
    /\ find_file_arg = <<>>

ParseInput ==
    /\ ppc = "start"
    /\ parsed' = try_parse_input(raw_input, repo_flag, build)
    /\ ppc' = "done"
    /\ UNCHANGED <<raw_input, repo_flag, build, find_file_arg>>
    /\ UNCHANGED nonParserVars

\* resolve on the parsed query: a FilePath goes to resolve_file, which
\* hands the path to Backend::find_file; an Unknown goes to
\* resolve_unknown, which hands the input to find_file once the commit, PR
\* and issue probes have failed.
ResolveParsed ==
    /\ ppc = "done"
    /\ parsed.ok
    /\ \E earlier_probes_fail \in BOOLEAN :
         find_file_arg' =
             IF parsed.kind = "FilePath" THEN <<parsed.value>>
             ELSE IF parsed.kind = "Unknown" /\ earlier_probes_fail
                  THEN <<parsed.value>>
                  ELSE <<>>
    /\ ppc' = "resolved"
    /\ UNCHANGED <<raw_input, repo_flag, build, parsed>>
    /\ UNCHANGED nonParserVars

NextParse == ParseInput \/ ResolveParsed

\* One run of the input parser.
SpecParse == InitParse /\ [][NextParse]_vars

HasControl(s) == \E i \in 1..Len(s) : IsControl(s[i])

\* C10: the parser rejects every raw input that contains a control
\* character with SecurityRejection, and every other input that is empty
\* or made of whitespace only with EmptyInput, with or without a repo
\* flag.
C10_ControlAndEmptyRejected ==
    ppc = "done" /\ raw_input \in RawInputs =>
        /\ HasControl(raw_input) =>
              ~parsed.ok /\ ~parsed.panic /\ parsed.err = "SecurityRejection"
        /\ (~HasControl(raw_input)
            /\ \A i \in 1..Len(raw_input) : IsWhitespace(raw_input[i])) =>
              ~parsed.ok /\ parsed.err = "EmptyInput"

\* C11: every path handed to Backend::find_file is non-empty, not absolute
\* and has no `..` component.
C11_FindFilePathSafe ==
    \A i \in 1..Len(find_file_arg) :
        LET p == find_file_arg[i]
            components == split(p, "/")
        IN  /\ p # <<>>
            /\ Head(p) # "/"
            /\ \A k \in 1..Len(components) : components[k] # <<".", ".">>

\* The input looks like a URL: a scheme, a leading `//` or `git@`, or a
\* host prefix.
LooksLikeUrl(s) ==
    /\ s # <<>>
    /\ \/ Head(s) \in {GitHubHead, OtherHead, SshHead, HostHead}
       \/ Len(s) >= 2 /\ s[1] = "/" /\ s[2] = "/"

\* C12: an input that looks like a URL either parses as a GitHub URL (a
\* commit, issue, PR or file of a remote repository) or fails with
\* NotGitHubUrl or MalformedGitHubUrl; it is never classified as Unknown or
\* IssueOrPr.
C12_UrlLikeNeverIdentifier ==
    (ppc # "start" /\ ~repo_flag.given /\ ~HasControl(raw_input)
     /\ LooksLikeUrl(trim(raw_input))) =>
        IF parsed.ok
        THEN parsed.kind \in {"GitCommit", "Issue", "Pr", "FilePath"}
        ELSE parsed.err \in {"NotGitHubUrl", "MalformedGitHubUrl"}

\* ---------------------------------------------------------------------
\* Commit enrichment (backend/mod.rs, backend/git_backend.rs)
\* ---------------------------------------------------------------------

\* Option<String> fields of CommitInfo: None, or a URL made of a repository
\* and a hash / a login.
NoText == [some |-> FALSE, repo |-> "none", hash |-> 0]
UrlText(repo, hash) == [some |-> TRUE, repo |-> repo, hash |-> hash]

\* CommitInfo
Commits ==
    [hash : Hashes, date : Timestamps, message : {"m1", "m2"},
     commit_url : {NoText} \cup { UrlText(r, h) : r \in {"o/r", "x/y"}, h \in Hashes },
     author_login : {NoText, UrlText("login", 0)},
     author_url : {NoText, UrlText("author", 0)}]

\* The backends enrich_commit is called on: a GitBackend with or without
\* repo_info, and a GitHubBackend.
EnrichBackends ==
    { [kind |-> "Git", repo_info |-> r] : r \in {"none", "o/r", "x/y"} }
    \cup { [kind |-> "GitHub", repo_info |-> "o/r"] }

\* An enrich_commit that writes the commit URL whether or not one is there.
enrich_commit_overwrites(b, commit) ==
    IF b.kind = "Git" /\ b.repo_info # "none"
    THEN [commit EXCEPT !.commit_url = UrlText(b.repo_info, commit.hash)]
    ELSE commit

\* GitBackend::enrich_commit; GitHubBackend keeps the trait's default,
\* which returns the commit as it is.
enrich_commit(b, commit) ==
    IF b.kind = "Git"
    THEN IF ~commit.commit_url.some /\ b.repo_info # "none"
         THEN [commit EXCEPT !.commit_url = UrlText(b.repo_info, commit.hash)]
         ELSE commit
    ELSE commit

InitEnrich ==
    /\ CacheIdle
    /\ ResolverIdle
    /\ TimelineIdle
    /\ SelectIdle
    /\ ParserIdle
    /\ fn_arg \in { <<b, c>> : b \in EnrichBackends, c \in Commits }
    /\ fn_res = <<>>

\* enrich_commit is called on the commit, then on what it returned.
Enrich ==
    /\ Len(fn_arg) = 2
    /\ Len(fn_res) < 2
    /\ fn_res' = Append(fn_res,
                        enrich_commit(fn_arg[1],
                                      IF fn_res = <<>> THEN fn_arg[2]
                                      ELSE fn_res[Len(fn_res)]))
    /\ UNCHANGED <<fn_arg, nonFuncVars>>

\* A commit enriched, and enriched again.
SpecEnrich == InitEnrich /\ [][Enrich]_vars

\* C13: enrich_commit is idempotent, never overwrites a commit URL, author
\* login or author URL that is present, and leaves hash, date and message
\* as they were.
C13_EnrichCommitContract ==
    Len(fn_arg) = 2 =>
        /\ \A i \in 1..Len(fn_res) :
              LET c == fn_arg[2]
                  e == fn_res[i]
              IN  /\ e.hash = c.hash /\ e.date = c.date /\ e.message = c.message
                  /\ c.commit_url.some => e.commit_url = c.commit_url
                  /\ c.author_login.some => e.author_login = c.author_login
                  /\ c.author_url.some => e.author_url = c.author_url
        /\ Len(fn_res) = 2 => fn_res[2] = fn_res[1]

\* A GitBackend of another repository has enriched, twice, a commit that
\* came with the URL of its own repository.
C13_Witness ==
    /\ Len(fn_arg) = 2
    /\ Len(fn_res) = 2
    /\ fn_arg[1] = [kind |-> "Git", repo_info |-> "x/y"]
    /\ fn_arg[2].commit_url = UrlText("o/r", fn_arg[2].hash)
    /\ fn_res[2].commit_url = UrlText("o/r", fn_arg[2].hash)

\* ---------------------------------------------------------------------
\* File history (git.rs find_file, commit_touches_file)
\* ---------------------------------------------------------------------

\* The two paths asked about, in the order they are asked.
FilePaths == <<"README.md", "README.rst">>

\* What a tree holds at a path: nothing, or a blob id with a filemode.
NoEntry == [id |-> 0, filemode |-> "none"]
TreeEntries ==
    {NoEntry, [id |-> 1, filemode |-> "100644"], [id |-> 1, filemode |-> "100755"],
     [id |-> 2, filemode |-> "100644"]}

\* A repository: commits 1..MaxCommits numbered in commit-time order, HEAD
\* the last one; each has parents among the earlier commits and a tree.
\* Histories with merges or several roots are explored for the first path,
\* linear ones for both.
CommitIds == 1..MaxCommits
LinearParents == [c \in CommitIds |-> IF c = 1 THEN {} ELSE {c - 1}]
Histories ==
    LET trees == [CommitIds -> [{FilePaths[1], FilePaths[2]} -> TreeEntries]]
        parents == { ps \in [CommitIds -> SUBSET CommitIds] :
                        \A c \in CommitIds : \A q \in ps[c] : q < c }
    IN  { [parents |-> LinearParents, tree |-> t] : t \in trees }
        \cup { [parents |-> ps, tree |-> t] :
                 ps \in parents,
                 t \in { u \in trees :
                           \A c \in CommitIds : u[c][FilePaths[2]] = NoEntry } }

\* revwalk with push_head: HEAD and its ancestors, newest first.
revwalk(h) ==
    LET RECURSIVE Reachable(_)
        Reachable(c) == {c} \cup UNION { Reachable(q) : q \in h.parents[c] }
        RECURSIVE Newest(_)
        Newest(c) ==
            IF c = 0 THEN <<>>
            ELSE (IF c \in Reachable(MaxCommits) THEN <<c>> ELSE <<>>)
                 \o Newest(c - 1)
    IN  Newest(MaxCommits)

\* A tree_entries_differ that does not see a removed entry.
tree_entries_differ_keeps_removed(current, previous) ==
    IF current = NoEntry THEN FALSE
    ELSE IF previous = NoEntry THEN TRUE
    ELSE current.id # previous.id \/ current.filemode # previous.filemode

tree_entries_differ(current, previous) ==
    IF current = NoEntry /\ previous = NoEntry THEN FALSE
    ELSE IF current = NoEntry \/ previous = NoEntry THEN TRUE
    ELSE current.id # previous.id \/ current.filemode # previous.filemode

\* A commit_touches_file that wants the entry to differ from all parents.
commit_touches_file_every_parent(h, c, file) ==
    IF h.parents[c] = {} THEN h.tree[c][file] # NoEntry
    ELSE \A q \in h.parents[c] :
            tree_entries_differ(h.tree[c][file], h.tree[q][file])

commit_touches_file(h, c, file) ==
    IF h.parents[c] = {} THEN h.tree[c][file] # NoEntry
    ELSE \E q \in h.parents[c] :
            tree_entries_differ(h.tree[c][file], h.tree[q][file])

\* The commits after last_commit in the walk that touch the path, up to
\* the limit find_file passes.
get_previous_authors(h, file, last_commit) ==
    LET Earlier(c) == c < last_commit /\ commit_touches_file(h, c, file)
        authors == SelectSeq(revwalk(h), Earlier)
    IN  SubSeq(authors, 1, IF Len(authors) < AuthorsLimit THEN Len(authors)
                           ELSE AuthorsLimit)

\* GitRepo::find_file: last_commit 0 stands for None.
find_file(h, file) ==
    LET Touches(c) == commit_touches_file(h, c, file)
        touching == SelectSeq(revwalk(h), Touches)
    IN  IF touching = <<>>
        THEN [path |-> file, last_commit |-> 0, previous_authors |-> <<>>]
        ELSE [path |-> file, last_commit |-> touching[1],
              previous_authors |-> get_previous_authors(h, file, touching[1])]

InitFiles ==
    /\ CacheIdle
    /\ ResolverIdle
    /\ TimelineIdle
    /\ SelectIdle
    /\ ParserIdle
    /\ fn_arg \in { <<h>> : h \in Histories }
    /\ fn_res = <<>>

\* find_file is called on the first path, then on the second.
FindFile ==
    /\ Len(fn_arg) = 1
    /\ Len(fn_res) < Len(FilePaths)
    /\ fn_res' = Append(fn_res, find_file(fn_arg[1], FilePaths[Len(fn_res) + 1]))
    /\ UNCHANGED <<fn_arg, nonFuncVars>>

\* The history of two paths asked of one repository.
SpecFiles == InitFiles /\ [][FindFile]_vars

\* The history is linear, and in it commit a introduces the first path, a
\* later commit b modifies it and a later commit cc renames it to the
\* second path; nothing else happens to the two paths.
RenameScenario(h, a, b, cc) ==
    LET old == FilePaths[1]
        new == FilePaths[2]
    IN  /\ h.parents = LinearParents
        /\ a < b /\ b < cc
        /\ h.tree[a][old] # NoEntry
        /\ h.tree[b][old] # NoEntry
        /\ h.tree[b][old] # h.tree[a][old]
        /\ h.tree[cc][new] = h.tree[b][old]
        /\ \A k \in CommitIds :
              /\ h.tree[k][old] = IF k < a \/ k >= cc THEN NoEntry
                                  ELSE IF k < b THEN h.tree[a][old]
                                  ELSE h.tree[b][old]
              /\ h.tree[k][new] = IF k < cc THEN NoEntry ELSE h.tree[cc][new]

InSeq(x, seq) == \E i \in 1..Len(seq) : seq[i] = x

\* C14 as stated: in a linear history where a path is introduced at A,
\* modified at B and renamed at C, find_file on the old path returns B as
\* last_commit with A among previous_authors, and find_file on the new path
\* returns C.
C14_OldPathEndsAtModification ==
    (Len(fn_arg) = 1 /\ Len(fn_res) = 2) =>
        \A a, b, cc \in CommitIds :
            RenameScenario(fn_arg[1], a, b, cc) =>
                /\ fn_res[1].last_commit = b
                /\ InSeq(a, fn_res[1].previous_authors)
                /\ fn_res[2].last_commit = cc

\* C14, amended: in that history find_file on the old path returns C, the
\* rename commit, as last_commit with B and A among previous_authors, and
\* find_file on the new path returns C.
C14_OldPathEndsAtRename ==
    (Len(fn_arg) = 1 /\ Len(fn_res) = 2) =>
        \A a, b, cc \in CommitIds :
            RenameScenario(fn_arg[1], a, b, cc) =>
                /\ fn_res[1].last_commit = cc
                /\ InSeq(b, fn_res[1].previous_authors)
                /\ InSeq(a, fn_res[1].previous_authors)
                /\ fn_res[2].last_commit = cc
                /\ fn_res[2].previous_authors = <<>>

\* Both paths of an introduced, modified and renamed file have been asked.
C14_Witness ==
    /\ Len(fn_arg) = 1
    /\ Len(fn_res) = 2
    /\ RenameScenario(fn_arg[1], 1, 2, 3)
    /\ fn_res[1].last_commit = 3

\* A touch in the words of the claim: a root commit touches a path iff the
\* path exists in its tree, another commit iff some parent's tree has a
\* different entry for it (presence, id or filemode).
ClaimedTouch(h, c, file) ==
    IF h.parents[c] = {} THEN h.tree[c][file] # NoEntry
    ELSE \E q \in h.parents[c] :
            \/ (h.tree[c][file] = NoEntry) # (h.tree[q][file] = NoEntry)
            \/ h.tree[c][file].id # h.tree[q][file].id
            \/ h.tree[c][file].filemode # h.tree[q][file].filemode

\* C15: find_file returns the first commit of the walk from HEAD that
\* touches the path (None when none does); in particular a HEAD with one
\* parent that adds the file, changes its content, changes only its
\* filemode or removes it is the commit returned.
C15_FirstTouchingCommit ==
    Len(fn_arg) = 1 =>
        \A i \in 1..Len(fn_res) :
            LET h == fn_arg[1]
                file == FilePaths[i]
                walk == revwalk(h)
                r == fn_res[i]
            IN  /\ r.last_commit = 0 =>
                      \A k \in 1..Len(walk) : ~ClaimedTouch(h, walk[k], file)
                /\ r.last_commit # 0 =>
                      \E k \in 1..Len(walk) :
                          /\ walk[k] = r.last_commit
                          /\ ClaimedTouch(h, walk[k], file)
                          /\ \A j \in 1..(k - 1) : ~ClaimedTouch(h, walk[j], file)
                /\ (h.parents[MaxCommits] = {MaxCommits - 1}
                    /\ h.tree[MaxCommits][file] # h.tree[MaxCommits - 1][file])
                      => r.last_commit = MaxCommits

\* A HEAD that changed nothing but the filemode of the first path was
\* returned for it.
C15_Witness ==
    /\ Len(fn_arg) = 1
    /\ Len(fn_res) = 2
    /\ LET h == fn_arg[1]
           f == FilePaths[1]
       IN  /\ h.parents[MaxCommits] = {MaxCommits - 1}
           /\ h.tree[MaxCommits][f] = [id |-> 1, filemode |-> "100755"]
           /\ h.tree[MaxCommits - 1][f] = [id |-> 1, filemode |-> "100644"]
           /\ fn_res[1].last_commit = MaxCommits

\* C16: a commit with several parents that find_file reports as the last
\* touch of a path has an entry for the path that differs from the entry
\* in every one of its parents.
C16_MergeDiffersFromEveryParent ==
    Len(fn_arg) = 1 =>
        \A i \in 1..Len(fn_res) :
            LET h == fn_arg[1]
                m == fn_res[i].last_commit
            IN  (m # 0 /\ Cardinality(h.parents[m]) >= 2) =>
                    \A q \in h.parents[m] :
                        h.tree[m][FilePaths[i]] # h.tree[q][FilePaths[i]]

\* ---------------------------------------------------------------------
\* Semantic versions (git.rs SEMVER_REGEX, parse_semver)
\* ---------------------------------------------------------------------

\* Tag names are sequences of characters: "a" stands for one of the
\* letters of the Python pre-release markers a, b and rc, "x" for any other
\* lowercase letter, "7" for a digit.
Lowercase == {"a", "x", "v"}
TagNames ==
    UNION { [1..k -> Lowercase \cup {"7", ".", "-", "+"}] : k \in 0..MaxTagLen }
    \cup { <<"x", "-", "v", "7", ".", "7", ".", "7", "a", "7">>,
           <<"x", "-", "v", "7", ".", "7", ".", "7", "-", "x", ".", "7">>,
           <<"7", ".", "7", ".", "7", ".", "7", "+", "x">>,
           <<"x", "-", "v", "-", "7", ".", "7", ".", "7">> }

\* The length of the longest run of characters of a class that starts at
\* position i (what a greedy `[class]+` takes).
RECURSIVE RunLen(_, _, _)
RunLen(s, i, class) ==
    IF i <= Len(s) /\ s[i] \in class THEN 1 + RunLen(s, i + 1, class) ELSE 0

\* SEMVER_REGEX.captures(tag), for a regex whose Python-style group accepts
\* the letter runs of py_letters: matched tells whether the regex matches,
\* the other fields are its groups (the empty text for a group that did not
\* take part).
SemverCaptures(tag, py_letters) ==
    LET n == Len(tag)
        At(i, c) == i <= n /\ tag[i] = c
        Text(i, len) == SubSeq(tag, i, i + len - 1)
        \* F applied to the value of st
        Then(st, F(_)) == CHOOSE r \in { F(x) : x \in {st} } : TRUE
        \* (?:[a-z]+-)?v?(\d+)
        Major(lp) ==
            LET p0 == IF lp >= 1 /\ At(lp + 1, "-") THEN lp + 2 ELSE 1
                p1 == IF At(p0, "v") THEN p0 + 1 ELSE p0
            IN  [p1 |-> p1, d1 |-> RunLen(tag, p1, {"7"})]
        \* \.(\d+)
        Minor(st) ==
            LET d2 == RunLen(tag, st.p1 + st.d1 + 1, {"7"})
            IN  [p1 |-> st.p1, d1 |-> st.d1, d2 |-> d2, q2 |-> st.p1 + st.d1 + 1 + d2]
        \* (?:\.(\d+))?
        Patch(st) ==
            LET d3 == IF At(st.q2, ".") THEN RunLen(tag, st.q2 + 1, {"7"}) ELSE 0
            IN  [p1 |-> st.p1, d1 |-> st.d1, d2 |-> st.d2, q2 |-> st.q2, d3 |-> d3,
                 q3 |-> IF d3 > 0 THEN st.q2 + 1 + d3 ELSE st.q2]
        \* (?:\.(\d+))?
        Build(st) ==
            LET d4 == IF At(st.q3, ".") THEN RunLen(tag, st.q3 + 1, {"7"}) ELSE 0
            IN  [p1 |-> st.p1, d1 |-> st.d1, d2 |-> st.d2, q2 |-> st.q2, d3 |-> st.d3,
                 q3 |-> st.q3, d4 |-> d4,
                 q4 |-> IF d4 > 0 THEN st.q3 + 1 + d4 ELSE st.q3]
        \* (?:(?:-([a-zA-Z0-9.-]+))|(?:([a-z]+)(\d+)))?
        PreRelease(st) ==
            LET dash == IF At(st.q4, "-")
                        THEN RunLen(tag, st.q4 + 1, Lowercase \cup {"7", ".", "-"})
                        ELSE 0
                letters == RunLen(tag, st.q4, Lowercase)
                digits == RunLen(tag, st.q4 + letters, {"7"})
                python == letters > 0 /\ digits > 0 /\ Text(st.q4, letters) \in py_letters
            IN  [p1 |-> st.p1, d1 |-> st.d1, d2 |-> st.d2, q2 |-> st.q2, d3 |-> st.d3,
                 q3 |-> st.q3, d4 |-> st.d4, q4 |-> st.q4,
                 dash |-> dash, letters |-> letters, digits |-> digits, python |-> python,
                 q5 |-> IF dash > 0 THEN st.q4 + 1 + dash
                        ELSE IF python THEN st.q4 + letters + digits
                        ELSE st.q4]
        \* (?:\+(.+))?$
        Groups(st) ==
            LET meta == IF At(st.q5, "+") /\ st.q5 < n THEN n - st.q5 ELSE 0
                q6 == IF meta > 0 THEN n + 1 ELSE st.q5
            IN  [matched |-> /\ st.d1 > 0
                             /\ At(st.p1 + st.d1, ".")
                             /\ st.d2 > 0
                             /\ q6 = n + 1,
                 major |-> Text(st.p1, st.d1),
                 minor |-> Text(st.p1 + st.d1 + 1, st.d2),
                 patch |-> Text(st.q2 + 1, st.d3),
                 build |-> Text(st.q3 + 1, st.d4),
                 dash_pre |-> Text(st.q4 + 1, st.dash),
                 py_pre |-> IF st.python THEN Text(st.q4, st.letters) ELSE <<>>,
                 py_num |-> IF st.python THEN Text(st.q4 + st.letters, st.digits) ELSE <<>>,
                 meta |-> Text(st.q5 + 1, meta)]
    IN  Then(Then(Then(Then(Then(Then(RunLen(tag, 1, Lowercase),
                                      Major), Minor), Patch), Build), PreRelease), Groups)

\* parse_semver: SEMVER_REGEX takes any run of lowercase letters as the
\* Python-style marker.  None is some = FALSE; an Option field is None
\* when it is the empty text.
parse_semver(tag) ==
    LET letter_runs == { r \in { SubSeq(tag, i, j) : i \in 1..Len(tag), j \in 1..Len(tag) } :
                           \A k \in 1..Len(r) : r[k] \in Lowercase }
        caps == SemverCaptures(tag, letter_runs)
    IN  [some |-> caps.matched,
         major |-> caps.major,
         minor |-> caps.minor,
         patch |-> caps.patch,
         build |-> caps.build,
         pre_release |-> IF caps.dash_pre # <<>> THEN caps.dash_pre
                         ELSE caps.py_pre \o caps.py_num,
         build_metadata |-> caps.meta]

\* TagInfo::is_stable_semver
is_stable_semver(semver) ==
    /\ semver.some
    /\ semver.pre_release = <<>>
    /\ semver.build_metadata = <<>>
    /\ semver.build = <<>>

InitSemver ==
    /\ CacheIdle
    /\ ResolverIdle
    /\ TimelineIdle
    /\ SelectIdle
    /\ ParserIdle
    /\ fn_arg \in { <<"tag", t>> : t \in TagNames }
    /\ fn_res = <<>>

ParseSemver ==
    /\ Len(fn_arg) = 2
    /\ fn_arg[1] = "tag"
    /\ fn_res = <<>>
    /\ fn_res' = <<parse_semver(fn_arg[2])>>
    /\ UNCHANGED <<fn_arg, nonFuncVars>>

\* One tag name given to parse_semver.
SpecSemver == InitSemver /\ [][ParseSemver]_vars

\* C17: parse_semver accepts a tag exactly when it has the shape: optional
\* lowercase prefix and hyphen, optional v, MAJOR.MINOR with optional
\* .PATCH and .BUILD, an optional pre-release that is `-` followed by
\* [a-zA-Z0-9.-]+ or one of a, b, rc directly followed by digits, and an
\* optional +BUILDMETA; the parsed tag is stable iff pre_release,
\* build_metadata and build are absent; py-v1.0.0b1 parses to 1.0.0 with
\* pre_release b1 and is not stable.
C17_SemverShape ==
    (Len(fn_arg) = 2 /\ fn_arg[1] = "tag" /\ fn_res # <<>>) =>
        LET tag == fn_arg[2]
            r == fn_res[1]
        IN  /\ r.some <=> SemverCaptures(tag, {<<"a">>}).matched
            /\ r.some =>
                  (is_stable_semver(r) <=>
                      r.pre_release = <<>> /\ r.build_metadata = <<>> /\ r.build = <<>>)
            /\ tag = <<"x", "-", "v", "7", ".", "7", ".", "7", "a", "7">> =>
                  /\ r.some
                  /\ r.patch = <<"7">>
                  /\ r.pre_release = <<"a", "7">>
                  /\ ~is_stable_semver(r)

\* ---------------------------------------------------------------------
\* Repository cache: when the remote is contacted
\* ---------------------------------------------------------------------

\* Fetching is permitted in the words of the claim: the repository is not
\* a local user repository without the fetch opt-in and not a shallow one
\* without fetching explicitly enabled (and there is a remote to contact).
ClaimedFetchPermitted ==
    /\ ~(entry.is_local /\ ~entry.allow_fetch)
    /\ ~(repo_shallow /\ ~entry.allow_fetch)
    /\ entry.has_remote_url

\* C18: a commit lookup that did not find the hash locally goes on to
\* ls-remote exactly when full_metadata_synced is false, the hash is not in
\* fetched_commits and fetching is permitted; otherwise it returns Not-Found
\* without a remote subprocess; ls-remote is never run in another way.
C18_RemoteContactedExactlyWhen ==
    [][\A c \in Callers :
         /\ (callers[c].pc = "state" /\ callers'[c] # callers[c]) =>
               IF /\ ~fetch_state.full_metadata_synced
                  /\ callers[c].hash \notin fetch_state.fetched_commits
                  /\ ClaimedFetchPermitted
               THEN callers'[c].pc = "probe"
               ELSE /\ callers'[c].pc = "done"
                    /\ callers'[c].result = "NotFound"
                    /\ callers'[c].probes = 0
                    /\ callers'[c].fetches = 0
         /\ callers'[c].probes > callers[c].probes => callers[c].pc = "probe"
      ]_vars

\* C19: the tags fetch is spawned only while neither tags_synced nor
\* full_metadata_synced is set; a tags fetch that succeeds leaves tags_synced
\* true, and tags_synced stays true, so tag lookups made one after another on
\* one entry run at most one successful tags fetch.
C19_TagsFetchedAtMostOnce ==
    [][/\ \A c \in Callers :
            /\ callers'[c].tag_fetches > callers[c].tag_fetches =>
                  /\ ~fetch_state.tags_synced
                  /\ ~fetch_state.full_metadata_synced
            /\ (/\ callers[c].pc = "tags_fetching"
                /\ callers'[c].pc = "done"
                /\ callers'[c].result = "Ok") =>
                  /\ ~fetch_state.tags_synced
                  /\ fetch_state'.tags_synced
       /\ fetch_state.tags_synced => fetch_state'.tags_synced
      ]_vars

\* A tag lookup has returned without a fetch on an entry whose gates let
\* tags be fetched, because an earlier lookup's fetch had set tags_synced.
C19_Witness ==
    /\ fetch_state.tags_synced
    /\ ~fetch_state.full_metadata_synced
    /\ TagGatesPass
    /\ \E c \in Callers :
          /\ callers[c].op = "tags"
          /\ callers[c].pc = "done"
          /\ callers[c].tag_fetches = 0

\* ---------------------------------------------------------------------
\* Repository cache: opening an entry
\* ---------------------------------------------------------------------

\* What an open finds and how its subprocess and library calls end.  on_disk
\* is what lies at the entry's path: nothing, something that is not a
\* repository, or a valid repository (which may be shallow).  Without a cache
\* directory there is no path and nothing on it.
OpenEnvs ==
    { e \in [cache_dir_ok : BOOLEAN,
             on_disk : {"absent", "invalid", "valid"},
             shallow : BOOLEAN,
             fetch_subprocess_ok : BOOLEAN,
             fetch_git2_ok : BOOLEAN,
             parent_dir_ok : BOOLEAN,
             filter_clone_ok : BOOLEAN,
             bare_clone_ok : BOOLEAN] :
        /\ ~e.cache_dir_ok => e.on_disk = "absent"
        /\ e.shallow => e.on_disk = "valid" }

\* update_remote_repo: the fetch subprocess, then the git2 fetch.
update_remote_repo(env) ==
    IF env.fetch_subprocess_ok
    THEN [ok |-> TRUE, steps |-> <<"fetch_with_subprocess">>]
    ELSE [ok |-> env.fetch_git2_ok,
          steps |-> <<"fetch_with_subprocess", "fetch_with_git2">>]

\* clone_remote_repo: the parent directory, the blob-filtered clone, then the
\* bare clone through git2.
clone_remote_repo(env) ==
    IF ~env.parent_dir_ok
    THEN [ok |-> FALSE, steps |-> <<>>]
    ELSE IF env.filter_clone_ok
    THEN [ok |-> TRUE, steps |-> <<"clone_with_filter">>]
    ELSE [ok |-> env.bare_clone_ok,
          steps |-> <<"clone_with_filter", "clone_bare_with_git2">>]

\* GitRepo::remote / RepoManager::remote.  The repository that was found
\* valid, or that a clone has just written, opens again.
remote(kind, env) ==
    LET Opened(how, shallow, steps) ==
            [ok |-> TRUE, steps |-> steps,
             entry |-> RemoteEntry(kind, how, shallow),
             fetch_state |-> [FetchStateDefault EXCEPT
                                !.full_metadata_synced = SyncedAfterOpen(how)]]
        Failed(steps) ==
            [ok |-> FALSE, steps |-> steps, entry |-> <<>>, fetch_state |-> <<>>]
    IN  IF ~env.cache_dir_ok
        THEN Failed(<<>>)
        ELSE IF env.on_disk = "valid"
        THEN LET updated == update_remote_repo(env)
             IN  Opened(IF updated.ok THEN "refreshed" ELSE "stale",
                        env.shallow, updated.steps)
        ELSE LET cloned == clone_remote_repo(env)
             IN  IF cloned.ok
                 THEN Opened("cloned", FALSE, cloned.steps)
                 ELSE Failed(cloned.steps)

InitOpen ==
    /\ CacheIdle
    /\ ResolverIdle
    /\ TimelineIdle
    /\ SelectIdle
    /\ ParserIdle
    /\ fn_arg \in { <<k, e>> : k \in {"GitRepo", "RepoManager"}, e \in OpenEnvs }
    /\ fn_res = <<>>

\* The entry is opened.
OpenRemote ==
    /\ Len(fn_arg) = 2
    /\ fn_res = <<>>
    /\ fn_res' = <<remote(fn_arg[1], fn_arg[2])>>
    /\ UNCHANGED <<fn_arg, nonFuncVars>>

SpecOpen == InitOpen /\ [][OpenRemote]_vars

C21_RemoteCallsSerialized ==
    LET InRemoteCall(c) == callers[c].pc \in {"probing", "fetching", "tags_fetching"}
    IN  /\ \A c, d \in Callers : c # d => ~(InRemoteCall(c) /\ InRemoteCall(d))
        /\ \A c \in Callers :
              callers[c].pc = "probing" => callers[c].hash \notin absent_probed

\* ---------------------------------------------------------------------
\* GitHub client: one API call
\* ---------------------------------------------------------------------

InitApiCall ==
    /\ CacheIdle
    /\ ResolverIdle
    /\ TimelineIdle
    /\ SelectIdle
    /\ ParserIdle
    /\ fn_arg \in { <<c, m, b>> : c \in Clients, m \in ApiOutcomes, b \in ApiOutcomes }
    /\ fn_res = <<>>

\* One call through call_api_and_get_client.
ApiCall ==
    /\ Len(fn_arg) = 3
    /\ fn_res = <<>>
    /\ fn_res' = <<call_api_and_get_client(fn_arg[1], fn_arg[2], fn_arg[3])>>
    /\ UNCHANGED <<fn_arg, nonFuncVars>>

SpecApiCall == InitApiCall /\ [][ApiCall]_vars

\* C22: the backup client is called only when the main client is
\* authenticated and the main attempt failed with a SAML or bad-credentials
\* error; after a rate limit, a timeout or any other error on main, and
\* whenever main is anonymous, the backup is not called and the main error
\* is returned.
C22_BackupOnlyAfterSamlOrBadCredentials ==
    fn_res # <<>> =>
        LET client == fn_arg[1]
            main == fn_arg[2]
            r == fn_res[1]
        IN  /\ r.backup_called =>
                  client.is_authenticated /\ main \in {"saml", "bad_credentials"}
            /\ (main # "ok" /\ (~client.is_authenticated
                                \/ main \notin {"saml", "bad_credentials"})) =>
                  /\ ~r.backup_called
                  /\ ~r.ok
                  /\ r.err = CASE main = "rate_limit" -> "GhRateLimit"
                               [] main = "timeout" -> "Timeout"
                               [] main = "saml" -> "GhSaml"
                               [] main = "bad_credentials" -> "GhBadCredentials"
                               [] OTHER -> "GitHub"
            /\ (client.is_authenticated /\ client.backup_built
                  /\ main \in {"saml", "bad_credentials"}) => r.backup_called

\* An authenticated client whose main attempt met a timeout has returned
\* Timeout without calling the backup.
C22_Witness ==
    /\ Len(fn_arg) = 3
    /\ fn_arg[1].is_authenticated
    /\ fn_arg[1].backup_built
    /\ fn_arg[2] = "timeout"
    /\ fn_res # <<>>
    /\ ~fn_res[1].backup_called
    /\ fn_res[1].err = "Timeout"

\* C23: on the fallback path, a backup attempt that also fails with a SAML
\* error makes the call return the main client's original error, and a
\* backup client that could not be built makes it fail with
\* GhConnectionLost.
C23_FallbackErrors ==
    fn_res # <<>> =>
        LET client == fn_arg[1]
            main == fn_arg[2]
            backup == fn_arg[3]
            r == fn_res[1]
            fallback == client.is_authenticated /\ main \in {"saml", "bad_credentials"}
        IN  /\ (fallback /\ client.backup_built /\ backup = "saml") =>
                  /\ ~r.ok
                  /\ r.err = IF main = "saml" THEN "GhSaml" ELSE "GhBadCredentials"
            /\ (fallback /\ ~client.backup_built) =>
                  /\ ~r.ok
                  /\ r.err = "GhConnectionLost"

\* A 401 on main followed by a SAML error on the backup has returned the
\* bad-credentials error.
C23_Witness ==
    /\ Len(fn_arg) = 3
    /\ fn_arg[1].is_authenticated
    /\ fn_arg[1].backup_built
    /\ fn_arg[2] = "bad_credentials"
    /\ fn_arg[3] = "saml"
    /\ fn_res # <<>>
    /\ fn_res[1].backup_called
    /\ fn_res[1].err = "GhBadCredentials"

\* ---------------------------------------------------------------------
\* Closing-PR discovery: the candidate list
\* ---------------------------------------------------------------------

\* C24: at every point of closing-PR discovery no two elements of
\* closing_prs are the same PR (owner, repo, number), whatever the order
\* and repetition of Closed, CrossReferenced and Referenced events across
\* pages.  (Every element is merged: only events whose PR passed the merged
\* test extend the list.)
C24_ClosingPrsDistinct ==
    \A i, j \in 1..Len(closing_prs) : i # j => closing_prs[i] # closing_prs[j]

\* ---------------------------------------------------------------------
\* GitHub client: an issue with its timeline
\* ---------------------------------------------------------------------

\* fetch_issue that raises the flag after any fallback to the backup.
fetch_issue_timeline_any_fallback(client, raw, issue, timeline, prs) ==
    LET got == call_api_and_get_client(client, raw.main, raw.backup)
        first == call_api_and_get_client(client, timeline.main, timeline.backup)
    IN  IF ~got.ok \/ issue = "pull_request"
        THEN [some |-> FALSE, timeline_requested |-> FALSE,
              closing_prs |-> <<>>, timeline_may_be_incomplete |-> FALSE]
        ELSE IF issue # "closed"
        THEN [some |-> TRUE, timeline_requested |-> FALSE,
              closing_prs |-> <<>>, timeline_may_be_incomplete |-> FALSE]
        ELSE [some |-> TRUE, timeline_requested |-> TRUE,
              closing_prs |-> IF first.ok THEN prs ELSE <<>>,
              timeline_may_be_incomplete |->
                  first.ok /\ first.selection \in {"FallbackSaml", "FallbackBadCredentials"}]

\* GitHubClient::fetch_issue with find_closing_prs: `raw` is how the issue
\* request ends, `issue` what it returns (an open issue, a closed issue, or
\* a PR, which the conversion rejects), `timeline` how the request for the
\* first timeline page ends and `prs` what the walk over the pages collects.
fetch_issue_timeline(client, raw, issue, timeline, prs) ==
    LET got == call_api_and_get_client(client, raw.main, raw.backup)
        first == call_api_and_get_client(client, timeline.main, timeline.backup)
    IN  IF ~got.ok \/ issue = "pull_request"
        THEN [some |-> FALSE, timeline_requested |-> FALSE,
              closing_prs |-> <<>>, timeline_may_be_incomplete |-> FALSE]
        ELSE IF issue # "closed"
        THEN [some |-> TRUE, timeline_requested |-> FALSE,
              closing_prs |-> <<>>, timeline_may_be_incomplete |-> FALSE]
        ELSE [some |-> TRUE, timeline_requested |-> TRUE,
              closing_prs |-> IF first.ok THEN prs ELSE <<>>,
              timeline_may_be_incomplete |->
                  first.ok /\ first.selection = "FallbackSaml"]

InitFetchIssue ==
    /\ CacheIdle
    /\ ResolverIdle
    /\ TimelineIdle
    /\ SelectIdle
    /\ ParserIdle
    /\ fn_arg \in { <<c, r, i, t, p>> :
                      c \in Clients,
                      r \in Raws([kind |-> "GitHub"]),
                      i \in {"open", "closed", "pull_request"},
                      t \in Raws([kind |-> "GitHub"]),
                      p \in {<<>>, <<1>>} }
    /\ fn_res = <<>>

FetchIssue ==
    /\ Len(fn_arg) = 5
    /\ fn_res = <<>>
    /\ fn_res' = <<fetch_issue_timeline(fn_arg[1], fn_arg[2], fn_arg[3],
                                        fn_arg[4], fn_arg[5])>>
    /\ UNCHANGED <<fn_arg, nonFuncVars>>

SpecFetchIssue == InitFetchIssue /\ [][FetchIssue]_vars

\* C25: fetch_issue sets timeline_may_be_incomplete exactly when the issue
\* is closed and its timeline was served by the backup client after a SAML
\* failure on the main client; for an open issue no timeline request is
\* made, closing_prs is empty and the flag is false.
C25_TimelineMayBeIncomplete ==
    (fn_res # <<>> /\ fn_res[1].some) =>
        LET client == fn_arg[1]
            issue == fn_arg[3]
            timeline == fn_arg[4]
            r == fn_res[1]
        IN  /\ r.timeline_may_be_incomplete <=>
                  /\ issue = "closed"
                  /\ client.is_authenticated
                  /\ client.backup_built
                  /\ timeline.main = "saml"
                  /\ timeline.backup = "ok"
            /\ issue = "open" =>
                  /\ ~r.timeline_requested
                  /\ r.closing_prs = <<>>
                  /\ ~r.timeline_may_be_incomplete

\* A closed issue whose timeline came from the backup after a SAML error
\* has been returned with the flag set.
C25_Witness ==
    /\ Len(fn_arg) = 5
    /\ fn_arg[3] = "closed"
    /\ fn_arg[4].main = "saml"
    /\ fn_res # <<>>
    /\ fn_res[1].some
    /\ fn_res[1].timeline_requested
    /\ fn_res[1].timeline_may_be_incomplete

\* ---------------------------------------------------------------------
\* Releases since a date
\* ---------------------------------------------------------------------

\* C26: fetch_releases_since requests the release pages in increasing page
\* order, checks the cutoff on each page sorted by created_at descending
\* (what it keeps of a page is in that order and is every release of the
\* page created at or after since), returns only releases with
\* created_at >= since, and requests no further page once it has met a
\* release with created_at < since.
C26_ReleasesSince ==
    LET PageOf(id) == ((id - 1) \div page_size) + 1
        n == Len(candidates)
    IN  path = "api" =>
          /\ pages_fetched \in 0..NumTags
          /\ \A i \in 1..n : candidates[i].ts >= target_ts
          /\ \A i \in 1..(n - 1) :
                /\ PageOf(candidates[i].id) <= PageOf(candidates[i + 1].id)
                /\ PageOf(candidates[i].id) = PageOf(candidates[i + 1].id) =>
                      candidates[i].ts >= candidates[i + 1].ts
          /\ \A i \in 1..n : \A t \in TagIds :
                (PageOf(t) = PageOf(candidates[i].id) /\ tag_world[t].ts >= target_ts) =>
                    \E j \in 1..n : candidates[j].id = t
          /\ spc = "paging" =>
                /\ pages_fetched >= 1
                /\ \A t \in TagIds :
                      PageOf(t) <= pages_fetched => tag_world[t].ts >= target_ts

\* The second page has been requested and held a release older than since,
\* which ended the pagination with the first page's release.
C26_Witness ==
    /\ path = "api"
    /\ spc = "compare"
    /\ pages_fetched = 2
    /\ page_size = 1
    /\ tag_world[2].ts < target_ts
    /\ Len(candidates) = 1
    /\ candidates[1].id = 1

\* ---------------------------------------------------------------------
\* Tags containing a commit
\* ---------------------------------------------------------------------

\* C27: every tag whose commit is the target commit or descends from it is
\* among the tags find_tags_containing_commit returns: the timestamp filter
\* drops no tag that contains the commit.
C27_TimestampFilterKeepsContainingTags ==
    (spc = "done" /\ path = "repo") =>
        \A t \in TagIds :
            tag_world[t].contains =>
                \E i \in 1..Len(candidates) : candidates[i].id = t

\* ---------------------------------------------------------------------
\* Repository cache: failed subprocesses
\* ---------------------------------------------------------------------

\* C28: when the ls-remote probe cannot be run or the fetch of a commit
\* fails, the lookup returns the error and FetchState is as it was, so the
\* hash is still one a lookup contacts the remote for (not local, not in
\* fetched_commits, no flag set, the gates open); a failed tags fetch leaves
\* FetchState as it was, with tags_synced false.
C28_FailureLeavesFetchState ==
    [][\A c \in Callers :
         /\ (/\ callers[c].pc \in {"probing", "fetching"}
             /\ callers'[c].pc = "done"
             /\ callers'[c].result # "Found"
             /\ callers'[c].hash \notin fetch_state'.fetched_commits) =>
                  callers'[c].result = "Error"
         /\ (/\ callers[c].pc \in {"probing", "fetching"}
             /\ callers'[c].pc = "done"
             /\ callers'[c].result = "Error") =>
                  /\ fetch_state' = fetch_state
                  /\ callers[c].hash \notin fetch_state'.fetched_commits
                  /\ ~fetch_state'.full_metadata_synced
                  /\ ~find_commit_local(callers[c].hash)'
                  /\ FetchGatesPass'
         /\ (/\ callers[c].pc = "tags_fetching"
             /\ callers'[c].pc = "done"
             /\ callers'[c].result = "Error") =>
                  /\ fetch_state' = fetch_state
                  /\ ~fetch_state'.tags_synced
      ]_vars

\* A lookup has ended in the error of its failed fetch and the hash is not
\* recorded.
C28_Witness ==
    \E c \in Callers :
        /\ callers[c].op = "find_commit"
        /\ callers[c].pc = "done"
        /\ callers[c].result = "Error"
        /\ callers[c].fetches = 1
        /\ callers[c].hash \notin fetch_state.fetched_commits

\* ---------------------------------------------------------------------
\* Backend resolution (backend/mod.rs)
\* ---------------------------------------------------------------------

\* resolve_backend.  explicit: the parsed input carries repository
\* coordinates; env: what RepoManager::remote meets when it opens the cache
\* entry; in_repo: the working directory is inside a git repository;
\* github_remote: that repository has a GitHub remote.  The result names the
\* backend and its git repository object, which GitBackend::from_path and
\* GitBackend::open build with GitRepo::from_path and GitRepo::open.
resolve_backend(explicit, env, in_repo, github_remote) ==
    LET Err(e) == [ok |-> FALSE, err |-> e, backend |-> "none", repo |-> <<>>]
        Ok(b, repo) == [ok |-> TRUE, err |-> "none", backend |-> b, repo |-> repo]
    IN  IF explicit
        THEN LET repo_manager == remote("RepoManager", env)
             IN  IF ~repo_manager.ok THEN Err("Io")
                 ELSE Ok("Combined",
                         LocalEntry("GitRepo", FALSE, TRUE, repo_manager.entry.is_shallow))
        ELSE IF ~in_repo THEN Err("NotInGitRepo")
        ELSE IF github_remote
        THEN Ok("Combined", LocalEntry("GitRepo", FALSE, TRUE, FALSE))
        ELSE Ok("Git", LocalEntry("GitRepo", FALSE, FALSE, FALSE))

InitBackend ==
    /\ CacheIdle
    /\ ResolverIdle
    /\ TimelineIdle
    /\ SelectIdle
    /\ ParserIdle
    /\ fn_arg \in { <<"resolve_backend", x, e, i, g>> :
                      x \in BOOLEAN, e \in OpenEnvs, i \in BOOLEAN, g \in BOOLEAN }
    /\ fn_res = <<>>

ResolveBackend ==
    /\ Len(fn_arg) = 5
    /\ fn_arg[1] = "resolve_backend"
    /\ fn_res = <<>>
    /\ fn_res' = <<resolve_backend(fn_arg[2], fn_arg[3], fn_arg[4], fn_arg[5])>>
    /\ UNCHANGED <<fn_arg, nonFuncVars>>

SpecBackend == InitBackend /\ [][ResolveBackend]_vars

\* C29: with explicit repository coordinates, when the cache entry cannot
\* be opened or cloned, backend resolution does not fail: it returns an
\* ApiOnly backend.
C29_ApiOnlyWhenCacheFails ==
    (fn_res # <<>> /\ fn_arg[2] /\ ~remote("RepoManager", fn_arg[3]).ok) =>
        /\ fn_res[1].ok
        /\ fn_res[1].backend = "ApiOnly"

\* C30: the git repository of a backend built for explicit coordinates has
\* fetching allowed; the repository of a backend built from the working
\* directory has it allowed only when the --fetch switch was given (the
\* command line has no such switch, so it never is).
C30_AllowFetchByOrigin ==
    (fn_res # <<>> /\ fn_res[1].ok) =>
        IF fn_arg[2]
        THEN fn_res[1].repo.allow_fetch
        ELSE ~fn_res[1].repo.allow_fetch

====
